---- MODULE Spec2Model ----
(***************************************************************************)
(* Model of the request contract of kohub_cli: the typed error taxonomy    *)
(* (errors.py), KohubClient's session state and _request (client.py), and  *)
(* the commands of cli.py that construct typed errors themselves.          *)
(***************************************************************************)
EXTENDS Integers, Sequences, FiniteSets, TLC

VARIABLES
    endpoint,         \* KohubClient.endpoint
    session_headers,  \* KohubClient.session.headers, a set of <<name, value>>
    last_assigned,    \* the value of the most recent assignment to client.token
    transport_log,    \* the requests the client's session has put on the wire
    last_outcome,     \* what the transport did with the most recent request
    result,           \* how the most recent operation ended
    tpc,              \* transfer: where the command stands
    targs,            \* transfer: the arguments of the command
    detected_repo_type, \* transfer: detected_repo_type
    tops,             \* transfer: the hub operations the command has issued
    tfiles,           \* transfer: the download directory and the upload counts
    exit_code,        \* the exit status of the command, -1 while it runs
    called,           \* the client operation most recently called, its repo_id
                      \* and the number of requests sent before it
    probe_outcome,    \* health_check: what the transport did with /api/version
    seen,             \* the classifications made so far, each with its client
    construction,     \* the arguments, environment and file a client is made from
    history,          \* Config._data["history"]
    lfs,              \* settings lfs: the command, its options and its request
    username,         \* interactive: state.username
    console,          \* interactive: the line the last menu operation printed
    answer,           \* interactive: what the last prompt returned
    upload,           \* upload_file: its arguments, the file and the body sent
    local_file,       \* download_file: the file at local_path
    listed            \* list_namespace_repos: the entries it returned

vars == <<endpoint, session_headers, last_assigned, transport_log,
          last_outcome, result, tpc, targs, detected_repo_type, tops, tfiles,
          exit_code, called, probe_outcome, seen, construction, history,
          lfs, username, console, answer, upload, local_file, listed>>

clientVars == <<endpoint, session_headers, last_assigned, transport_log>>
transferVars == <<tpc, targs, detected_repo_type, tops, tfiles, exit_code>>
menuVars == <<username, console, answer>>
fileVars == <<upload, local_file, listed>>
laterVars == <<called, probe_outcome, seen, construction, history, lfs,
               username, console, answer, upload, local_file, listed>>

(***************************************************************************)
(* Bounds of the model.                                                    *)
(***************************************************************************)
\* transport requests after which no further request is explored
MaxSent == 2
\* the most files a source repository holds
MaxFiles == 2

(***************************************************************************)
(* Python values.  Every value is a record of one shape: t is the type,    *)
(* s the characters of a str (or the source text of a container), n the    *)
(* number of an int or bool, or the length of a list or dict.              *)
(***************************************************************************)
None == [t |-> "none", s |-> "", n |-> 0]
Str(s) == [t |-> "str", s |-> s, n |-> 0]
Int_(n) == [t |-> "int", s |-> "", n |-> n]
Bool_(b) == [t |-> "bool", s |-> "", n |-> IF b THEN 1 ELSE 0]
List_(src, len) == [t |-> "list", s |-> src, n |-> len]
Dict_(src, len) == [t |-> "dict", s |-> src, n |-> len]

\* Python truthiness: None, "", 0, False, [] and {} are false
Truthy(v) ==
    CASE v.t = "none" -> FALSE
      [] v.t = "str" -> Len(v.s) > 0
      [] OTHER -> v.n # 0

\* a or b
Or_(a, b) == IF Truthy(a) THEN a ELSE b

(***************************************************************************)
(* str operations.                                                         *)
(***************************************************************************)
UpperToLower ==
    [c \in {"A", "B", "C", "D", "E", "F", "G", "H", "I", "J", "K", "L", "M",
            "N", "O", "P", "Q", "R", "S", "T", "U", "V", "W", "X", "Y", "Z"} |->
       CASE c = "A" -> "a" [] c = "B" -> "b" [] c = "C" -> "c" [] c = "D" -> "d"
         [] c = "E" -> "e" [] c = "F" -> "f" [] c = "G" -> "g" [] c = "H" -> "h"
         [] c = "I" -> "i" [] c = "J" -> "j" [] c = "K" -> "k" [] c = "L" -> "l"
         [] c = "M" -> "m" [] c = "N" -> "n" [] c = "O" -> "o" [] c = "P" -> "p"
         [] c = "Q" -> "q" [] c = "R" -> "r" [] c = "S" -> "s" [] c = "T" -> "t"
         [] c = "U" -> "u" [] c = "V" -> "v" [] c = "W" -> "w" [] c = "X" -> "x"
         [] c = "Y" -> "y" [] c = "Z" -> "z"]

LowerChar(c) == IF c \in DOMAIN UpperToLower THEN UpperToLower[c] ELSE c

\* str.lower()
RECURSIVE Lower(_)
Lower(s) ==
    IF Len(s) = 0 THEN ""
    ELSE LowerChar(SubSeq(s, 1, 1)) \o Lower(SubSeq(s, 2, Len(s)))

\* needle in hay
Contains(hay, needle) ==
    \E i \in 1..(Len(hay) - Len(needle) + 1) :
        SubSeq(hay, i, i + Len(needle) - 1) = needle

\* str.startswith
StartsWith(s, prefix) ==
    Len(s) >= Len(prefix) /\ SubSeq(s, 1, Len(prefix)) = prefix

\* str.rstrip("/")
RECURSIVE RStripSlash(_)
RStripSlash(s) ==
    IF Len(s) > 0 /\ SubSeq(s, Len(s), Len(s)) = "/"
    THEN RStripSlash(SubSeq(s, 1, Len(s) - 1))
    ELSE s

\* str(n) for the integers the model uses
Digit(d) ==
    CASE d = 0 -> "0" [] d = 1 -> "1" [] d = 2 -> "2" [] d = 3 -> "3"
      [] d = 4 -> "4" [] d = 5 -> "5" [] d = 6 -> "6" [] d = 7 -> "7"
      [] d = 8 -> "8" [] d = 9 -> "9"

RECURSIVE NatToStr(_)
NatToStr(n) == IF n < 10 THEN Digit(n) ELSE NatToStr(n \div 10) \o Digit(n % 10)

IntToStr(n) == IF n < 0 THEN "-" \o NatToStr(0 - n) ELSE NatToStr(n)

(***************************************************************************)
(* HTTP responses.  json is what response.json() does: it raises (ok is    *)
(* FALSE) or returns a value of type t; for a dict, detail and message are *)
(* what data.get("detail") and data.get("message") return (None when the   *)
(* key is absent or null).                                                 *)
(***************************************************************************)
ParseFail == [ok |-> FALSE, t |-> "none", detail |-> None, message |-> None]
JObject(d, m) == [ok |-> TRUE, t |-> "dict", detail |-> d, message |-> m]
JOther(t) == [ok |-> TRUE, t |-> t, detail |-> None, message |-> None]
\* a dict with the key "username"
JUser(u) ==
    [ok |-> TRUE, t |-> "dict", detail |-> None, message |-> None, username |-> u]

Response(status, text, json) == [status_code |-> status, text |-> text, json |-> json]

NoResponse == None

\* requests.Response.ok: raise_for_status() raises for 400 <= status < 600
ResponseOk(response) == ~(400 <= response.status_code /\ response.status_code < 600)

(***************************************************************************)
(* errors.py                                                               *)
(***************************************************************************)
KohubKinds == {"KohubError", "AuthenticationError", "AuthorizationError",
               "NotFoundError", "AlreadyExistsError", "ValidationError",
               "ServerError", "NetworkError"}

\* KohubError.__init__(message, status_code=None, response=None)
KohubError(kind, message, status_code, response) ==
    [kind |-> kind, message |-> message, status_code |-> status_code,
     response |-> response]

\* an exception that is not of the taxonomy
PyException(kind, text) ==
    [kind |-> kind, message |-> Str(text), status_code |-> None,
     response |-> NoResponse]

NoException == PyException("", "")

\* the text of the AttributeError that value.lower() raises on a non-str
NoLowerText(v) ==
    "'" \o (IF v.t = "none" THEN "NoneType" ELSE v.t) \o
    "' object has no attribute 'lower'"

\* ExtractMessage reading the message field before the detail field
ExtractMessage_MessageFirst(response) ==
    LET status == response.status_code
        data == response.json
    IN IF data.ok /\ data.t = "dict"
       THEN Or_(Or_(data.message, data.detail), Str(response.text))
       ELSE Or_(Str(response.text), Str("HTTP " \o IntToStr(status)))

\* errors.py:67-71, the message of the error
ExtractMessage(response) ==
    LET status == response.status_code
        data == response.json
    IN IF data.ok /\ data.t = "dict"
       THEN Or_(Or_(data.detail, data.message), Str(response.text))
       ELSE Or_(Str(response.text), Str("HTTP " \o IntToStr(status)))

\* errors.py:81, the test of the status-400 branch
LooksLikeExists(message) ==
    \/ Contains(Lower(message.s), "already exists")
    \/ Contains(Lower(message.s), "exists")

\* ErrorKindOf with the server-error test off by one
ErrorKindOf_Above500(status, message) ==
    IF status = 401 THEN "AuthenticationError"
    ELSE IF status = 403 THEN "AuthorizationError"
    ELSE IF status = 404 THEN "NotFoundError"
    ELSE IF status = 400
         THEN IF message.t # "str" THEN "AttributeError"
              ELSE IF LooksLikeExists(message) THEN "AlreadyExistsError"
              ELSE "ValidationError"
    ELSE IF status > 500 THEN "ServerError"
    ELSE "KohubError"

\* errors.py:73-88, the class of the exception raised; it is AttributeError
\* when message.lower() is called on a message that is not a str
ErrorKindOf(status, message) ==
    IF status = 401 THEN "AuthenticationError"
    ELSE IF status = 403 THEN "AuthorizationError"
    ELSE IF status = 404 THEN "NotFoundError"
    ELSE IF status = 400
         THEN IF message.t # "str" THEN "AttributeError"
              ELSE IF LooksLikeExists(message) THEN "AlreadyExistsError"
              ELSE "ValidationError"
    ELSE IF status >= 500 THEN "ServerError"
    ELSE "KohubError"

\* errors.py:56-88, the exception handle_response_error ends with
handle_response_error(response) ==
    LET status == response.status_code
        message == ExtractMessage(response)
        kind == ErrorKindOf(status, message)
    IN IF kind = "AttributeError"
       THEN PyException("AttributeError", NoLowerText(message))
       ELSE KohubError(kind, message, Int_(status), response)

(***************************************************************************)
(* client.py: the session of a KohubClient and _request.                   *)
(***************************************************************************)
\* the headers a requests.Session starts with (one stands for all of them)
DefaultHeaders == {<<"Accept", "*/*">>}

HeaderNames(headers) == {h[1] : h \in headers}

\* headers.get(name, "")
HeaderGet(headers, name) ==
    IF name \in HeaderNames(headers)
    THEN (CHOOSE h \in headers : h[1] = name)[2]
    ELSE ""

\* headers.pop(name, None)
HeaderPop(headers, name) == {h \in headers : h[1] # name}

\* headers[name] = value
HeaderSet(headers, name, value) == HeaderPop(headers, name) \cup {<<name, value>>}

\* client.py:60-66, the token property
TokenGetter(headers) ==
    LET auth == HeaderGet(headers, "Authorization")
    IN IF StartsWith(auth, "Bearer ")
       THEN Str(SubSeq(auth, 8, Len(auth)))
       ELSE None

\* the token setter without the test of the value
TokenSetter_AlwaysSets(headers, value) ==
    HeaderSet(headers, "Authorization", "Bearer " \o value.s)

\* client.py:68-74, the token setter
TokenSetter(headers, value) ==
    IF Truthy(value)
    THEN HeaderSet(headers, "Authorization", "Bearer " \o value.s)
    ELSE HeaderPop(headers, "Authorization")

\* requests merges the headers of the call over the headers of the session
MergeHeaders(session, call) ==
    {h \in session : h[1] \notin HeaderNames(call)} \cup call

\* what the transport does with one request: it raises a RequestException
\* with a description, or it delivers a response
TransportRaises(description) ==
    [raised |-> TRUE, description |-> description, response |-> NoResponse]
TransportDelivers(response) ==
    [raised |-> FALSE, description |-> "", response |-> response]

\* the end of an operation: a returned value or a raised exception
\* (handled tells whether the operation called handle_response_error)
Returned(op, value) ==
    [op |-> op, returned |-> TRUE, value |-> value, exc |-> NoException,
     handled |-> FALSE]
Raised(op, exc) ==
    [op |-> op, returned |-> FALSE, value |-> NoResponse, exc |-> exc,
     handled |-> FALSE]
Classified(op, response) ==
    [op |-> op, returned |-> FALSE, value |-> NoResponse,
     exc |-> handle_response_error(response), handled |-> TRUE]
NoResult == Returned("", NoResponse)

\* NetworkError without the description of the exception
NetworkErrorOf_NoDescription(description) ==
    KohubError("NetworkError", Str("Network request failed"), None, NoResponse)

\* client.py:95
NetworkErrorOf(description) ==
    KohubError("NetworkError", Str("Network request failed: " \o description),
               None, NoResponse)

\* a transport call that is repeated once when it fails
Transmit_RetryOnFailure(log, request, outcome) ==
    IF outcome.raised THEN Append(Append(log, request), request)
    ELSE IF ~ResponseOk(outcome.response) THEN Append(Append(log, request), request)
    ELSE Append(log, request)

\* client.py:93, the requests this call puts on the wire
Transmit(log, request, outcome) == Append(log, request)

\* _request taking every refusal of a client without a token for a 401
_request_TokenDecidesKind(ep, headers, log, method, path, call_headers, outcome) ==
    LET url == ep \o path
        request == [method |-> method, url |-> url,
                    headers |-> MergeHeaders(headers, call_headers)]
    IN [endpoint |-> ep,
        session_headers |-> headers,
        transport_log |-> Transmit(log, request, outcome),
        result |-> IF outcome.raised
                   THEN Raised("_request", NetworkErrorOf(outcome.description))
                   ELSE IF ~ResponseOk(outcome.response)
                        THEN IF TokenGetter(headers) = None
                             THEN Classified("_request",
                                      [outcome.response EXCEPT !.status_code = 401])
                             ELSE Classified("_request", outcome.response)
                        ELSE Returned("_request", outcome.response)]

\* _request dropping the token when the hub answers 401
_request_DropsTokenOn401(ep, headers, log, method, path, call_headers, outcome) ==
    LET url == ep \o path
        request == [method |-> method, url |-> url,
                    headers |-> MergeHeaders(headers, call_headers)]
    IN [endpoint |-> ep,
        session_headers |-> IF ~outcome.raised /\ outcome.response.status_code = 401
                            THEN HeaderPop(headers, "Authorization")
                            ELSE headers,
        transport_log |-> Transmit(log, request, outcome),
        result |-> IF outcome.raised
                   THEN Raised("_request", NetworkErrorOf(outcome.description))
                   ELSE IF ~ResponseOk(outcome.response)
                        THEN Classified("_request", outcome.response)
                        ELSE Returned("_request", outcome.response)]

\* client.py:76-101: the session after the call, the wire, and how it ends
_request(ep, headers, log, method, path, call_headers, outcome) ==
    LET url == ep \o path
        request == [method |-> method, url |-> url,
                    headers |-> MergeHeaders(headers, call_headers)]
    IN [endpoint |-> ep,
        session_headers |-> headers,
        transport_log |-> Transmit(log, request, outcome),
        result |-> IF outcome.raised
                   THEN Raised("_request", NetworkErrorOf(outcome.description))
                   ELSE IF ~ResponseOk(outcome.response)
                        THEN Classified("_request", outcome.response)
                        ELSE Returned("_request", outcome.response)]

(***************************************************************************)
(* config.py: where the endpoint and the token of a new client come from.  *)
(***************************************************************************)
DefaultEndpoint == "http://localhost:28080"

\* Config.endpoint looking into the file before the environment
ConfigEndpoint_FileFirst(env, file) ==
    IF file.has_endpoint /\ Truthy(file.endpoint) THEN file.endpoint
    ELSE Or_(env.HF_ENDPOINT, Str(DefaultEndpoint))

\* config.py:170-181
ConfigEndpoint(env, file) ==
    Or_(env.HF_ENDPOINT,
        IF file.has_endpoint THEN file.endpoint ELSE Str(DefaultEndpoint))

\* config.py:188-197
ConfigToken(env, file) == Or_(env.HF_TOKEN, file.token)

\* KohubClient.__init__ keeping the endpoint as it is given
NewClient_KeepsSlash(endpoint_arg, token_arg, env, file) ==
    LET token == IF Truthy(token_arg) THEN token_arg
                 ELSE IF Truthy(ConfigToken(env, file)) THEN ConfigToken(env, file)
                 ELSE None
    IN [endpoint |-> Or_(endpoint_arg, ConfigEndpoint(env, file)).s,
        session_headers |-> IF Truthy(token)
                            THEN TokenSetter(DefaultHeaders, token)
                            ELSE DefaultHeaders,
        last_assigned |-> token]

\* client.py:37-58, KohubClient.__init__
NewClient(endpoint_arg, token_arg, env, file) ==
    LET token == IF Truthy(token_arg) THEN token_arg
                 ELSE IF Truthy(ConfigToken(env, file)) THEN ConfigToken(env, file)
                 ELSE None
    IN [endpoint |-> RStripSlash(Or_(endpoint_arg, ConfigEndpoint(env, file)).s),
        session_headers |-> IF Truthy(token)
                            THEN TokenSetter(DefaultHeaders, token)
                            ELSE DefaultHeaders,
        last_assigned |-> token]

(***************************************************************************)
(* The inputs the model draws from.                                        *)
(***************************************************************************)
\* the ways a client is constructed
Constructions ==
    { [endpoint_arg |-> None, token_arg |-> None,
       env |-> [HF_ENDPOINT |-> None, HF_TOKEN |-> None],
       file |-> [has_endpoint |-> FALSE, endpoint |-> None, token |-> None]],
      [endpoint_arg |-> Str("http://hub.example/"), token_arg |-> Str("tokA"),
       env |-> [HF_ENDPOINT |-> None, HF_TOKEN |-> None],
       file |-> [has_endpoint |-> FALSE, endpoint |-> None, token |-> None]],
      [endpoint_arg |-> None, token_arg |-> None,
       env |-> [HF_ENDPOINT |-> Str("http://env.example"), HF_TOKEN |-> None],
       file |-> [has_endpoint |-> TRUE, endpoint |-> Str("http://file.example//"),
                 token |-> Str("tokB")]] }

\* the values assigned to client.token
TokenValues == {None, Str(""), Str("tokA"), Str("tokB")}

\* the calls of _request: method, path and the headers of the call
Calls ==
    { [method |-> "GET", path |-> "/api/auth/me", headers |-> {}],
      [method |-> "POST", path |-> "/api/commit",
       headers |-> {<<"Content-Type", "application/x-ndjson">>}] }

\* str(e) of the RequestException the transport raises
TransportErrors == {"Connection refused", "Read timed out"}

\* messages with and without "exists", in every position and case
Prefixes == {"", "dataset ", "Repository already "}
Cores == {"exists", "EXISTS", "Exists", "exist", "exits"}
Suffixes == {"", " already"}
Messages ==
    {p \o c \o x : p \in Prefixes, c \in Cores, x \in Suffixes} \cup {"Invalid name"}

\* a body: the text and what response.json() makes of it
Body(text, json) == [text |-> text, json |-> json]

TextBodies == {Body(m, ParseFail) : m \in Messages \cup {"", "Bad Gateway"}}
DetailBodies ==
    {Body("{\"detail\": \"" \o m \o "\"}", JObject(Str(m), None)) : m \in Messages}
MessageBodies ==
    {Body("{\"message\": \"" \o m \o "\"}", JObject(None, Str(m))) : m \in Messages}
OddBodies ==
    { Body("{}", JObject(None, None)),
      Body("{\"error\": \"it exists\"}", JObject(None, None)),
      Body("{\"detail\": \"\", \"message\": \"Invalid name\"}",
           JObject(Str(""), Str("Invalid name"))),
      Body("{\"detail\": \"Name exists\", \"message\": \"Invalid name\"}",
           JObject(Str("Name exists"), Str("Invalid name"))),
      Body("{\"detail\": null, \"message\": \"Name exists\"}",
           JObject(None, Str("Name exists"))),
      Body("{\"detail\": [\"Invalid name\"]}",
           JObject(List_("[\"Invalid name\"]", 1), None)),
      Body("{\"detail\": [], \"message\": {\"msg\": \"exists\"}}",
           JObject(List_("[]", 0), Dict_("{\"msg\": \"exists\"}", 1))),
      Body("{\"detail\": {\"msg\": \"exists\"}}",
           JObject(Dict_("{\"msg\": \"exists\"}", 1), None)),
      Body("{\"detail\": 42}", JObject(Int_(42), None)),
      Body("{\"detail\": true}", JObject(Bool_(TRUE), None)),
      Body("[\"exists\"]", JOther("list")),
      Body("null", JOther("none")),
      Body("\"exists\"", JOther("str")),
      Body("400", JOther("int")) }

AllBodies == TextBodies \cup DetailBodies \cup MessageBodies \cup OddBodies

\* the status codes handed to the classifier
AllStatuses == {0 - 1, 0, 200, 302, 399, 400, 401, 402, 403, 404, 409, 422,
                499, 500, 503, 599, 600}

AllResponses == {Response(st, b.text, b.json) : st \in AllStatuses, b \in AllBodies}

\* the responses the transport delivers to the client
WireBodies ==
    { Body("", ParseFail),
      Body("Bad Gateway", ParseFail),
      Body("{\"detail\": \"Repository already exists\"}",
           JObject(Str("Repository already exists"), None)),
      Body("{\"detail\": [\"Invalid name\"]}",
           JObject(List_("[\"Invalid name\"]", 1), None)) }
WireStatuses == {200, 302, 400, 401, 404, 500}
WireResponses == {Response(st, b.text, b.json) : st \in WireStatuses, b \in WireBodies}

TransportOutcomes ==
    {TransportRaises(d) : d \in TransportErrors} \cup
    {TransportDelivers(r) : r \in WireResponses}

NoOutcome == TransportRaises("")

(***************************************************************************)
(* client.py: the operations of KohubClient that the commands call.  Each  *)
(* takes the session of the client it is called on and what the transport  *)
(* does with its request, and gives the session afterwards and the result. *)
(***************************************************************************)
\* the session of the client of the command line (ctx.obj["client"])
ClientSession ==
    [endpoint |-> endpoint, session_headers |-> session_headers,
     transport_log |-> transport_log]

\* the session of a client constructed inside a command
SessionOf(client) ==
    [endpoint |-> client.endpoint, session_headers |-> client.session_headers,
     transport_log |-> <<>>]

\* the operation raises before it sends anything
Rejects(sess, op, exc) ==
    [endpoint |-> sess.endpoint, session_headers |-> sess.session_headers,
     transport_log |-> sess.transport_log, result |-> Raised(op, exc)]

\* return response.json(), at the end of an operation
JsonOf(after, op) ==
    [after EXCEPT !.result =
        IF after.result.returned /\ ~after.result.value.json.ok
        THEN Raised(op, PyException("JSONDecodeError", "Expecting value"))
        ELSE [after.result EXCEPT !.op = op]]

\* repo_id.split("/", 1) of a repo_id with a "/"
FirstSlash(repo_id) ==
    CHOOSE i \in 1..Len(repo_id) :
        /\ SubSeq(repo_id, i, i) = "/"
        /\ \A j \in 1..(i - 1) : SubSeq(repo_id, j, j) # "/"
NamespaceOf(repo_id) == SubSeq(repo_id, 1, FirstSlash(repo_id) - 1)
NameOf(repo_id) == SubSeq(repo_id, FirstSlash(repo_id) + 1, Len(repo_id))

InvalidRepoId == PyException("ValueError", "repo_id must be in format 'namespace/name'")

\* client.py:549-580 (revision is None in every call of the commands modelled)
repo_info(sess, repo_id, repo_type, outcome) ==
    IF Contains(repo_id, "/")
    THEN JsonOf(_request(sess.endpoint, sess.session_headers, sess.transport_log,
                         "GET",
                         "/api/" \o repo_type \o "s/" \o NamespaceOf(repo_id)
                             \o "/" \o NameOf(repo_id),
                         {}, outcome),
                "repo_info")
    ELSE Rejects(sess, "repo_info", InvalidRepoId)

\* client.py:437-476
create_repo(sess, repo_id, repo_type, outcome) ==
    JsonOf(_request(sess.endpoint, sess.session_headers, sess.transport_log,
                    "POST", "/api/repos/create", {}, outcome),
           "create_repo")

\* client.py:667-701 (revision "main", path "")
list_repo_tree(sess, repo_id, repo_type, outcome) ==
    IF Contains(repo_id, "/")
    THEN JsonOf(_request(sess.endpoint, sess.session_headers, sess.transport_log,
                         "GET",
                         RStripSlash("/api/" \o repo_type \o "s/"
                             \o NamespaceOf(repo_id) \o "/" \o NameOf(repo_id)
                             \o "/tree/main/"),
                         {}, outcome),
                "list_repo_tree")
    ELSE Rejects(sess, "list_repo_tree", InvalidRepoId)

\* client.py:1157-1240 (branch "main")
upload_file(sess, local_exists, repo_id, repo_path, repo_type, outcome) ==
    IF ~local_exists
    THEN Rejects(sess, "upload_file", PyException("FileNotFoundError", "File not found"))
    ELSE IF ~Contains(repo_id, "/")
    THEN Rejects(sess, "upload_file", InvalidRepoId)
    ELSE JsonOf(_request(sess.endpoint, sess.session_headers, sess.transport_log,
                         "POST",
                         "/api/" \o repo_type \o "s/" \o NamespaceOf(repo_id)
                             \o "/" \o NameOf(repo_id) \o "/commit/main",
                         {<<"Content-Type", "application/x-ndjson">>}, outcome),
                "upload_file")

\* a download that opens the local file before it looks at the status
download_file_WritesFirst(sess, repo_id, repo_path, repo_type, outcome) ==
    IF ~Contains(repo_id, "/")
    THEN [endpoint |-> sess.endpoint,
          session_headers |-> sess.session_headers,
          transport_log |-> sess.transport_log,
          result |-> Raised("download_file", InvalidRepoId),
          wrote |-> FALSE]
    ELSE LET url == sess.endpoint \o "/" \o repo_type \o "s/"
                      \o NamespaceOf(repo_id) \o "/" \o NameOf(repo_id)
                      \o "/resolve/main/" \o repo_path
             request == [method |-> "GET", url |-> url,
                         headers |-> MergeHeaders(sess.session_headers, {})]
         IN [endpoint |-> sess.endpoint,
             session_headers |-> sess.session_headers,
             transport_log |-> Append(sess.transport_log, request),
             result |-> IF outcome.raised
                        THEN Raised("download_file",
                                 KohubError("NetworkError",
                                     Str("Download failed: " \o outcome.description),
                                     None, NoResponse))
                        ELSE IF ~ResponseOk(outcome.response)
                             THEN Classified("download_file", outcome.response)
                             ELSE Returned("download_file", outcome.response),
             wrote |-> ~outcome.raised]

\* client.py:1242-1284 (revision "main"): session.get on the resolve URL,
\* without _request; wrote tells whether the local file was written
download_file(sess, repo_id, repo_path, repo_type, outcome) ==
    IF ~Contains(repo_id, "/")
    THEN [endpoint |-> sess.endpoint,
          session_headers |-> sess.session_headers,
          transport_log |-> sess.transport_log,
          result |-> Raised("download_file", InvalidRepoId),
          wrote |-> FALSE]
    ELSE LET url == sess.endpoint \o "/" \o repo_type \o "s/"
                      \o NamespaceOf(repo_id) \o "/" \o NameOf(repo_id)
                      \o "/resolve/main/" \o repo_path
             request == [method |-> "GET", url |-> url,
                         headers |-> MergeHeaders(sess.session_headers, {})]
         IN [endpoint |-> sess.endpoint,
             session_headers |-> sess.session_headers,
             transport_log |-> Append(sess.transport_log, request),
             result |-> IF outcome.raised
                        THEN Raised("download_file",
                                 KohubError("NetworkError",
                                     Str("Download failed: " \o outcome.description),
                                     None, NoResponse))
                        ELSE IF ~ResponseOk(outcome.response)
                             THEN Classified("download_file", outcome.response)
                             ELSE Returned("download_file", outcome.response),
             wrote |-> ~outcome.raised /\ ResponseOk(outcome.response)]

\* "/api/{repo_type}s/{namespace}/{name}" after repo_id.split("/", 1)
RepoPath(repo_type, repo_id) ==
    "/api/" \o repo_type \o "s/" \o NamespaceOf(repo_id) \o "/" \o NameOf(repo_id)

\* the operations that test the repo_id, send one request and return
\* response.json(): the test, the request and the return
CheckedRequest(sess, op, repo_id, method, path, outcome) ==
    IF ~Contains(repo_id, "/")
    THEN Rejects(sess, op, InvalidRepoId)
    ELSE JsonOf(_request(sess.endpoint, sess.session_headers, sess.transport_log,
                         method, path, {}, outcome),
                op)

\* the operations that send one request, whatever their arguments are
PlainRequest(sess, op, method, path, outcome) ==
    JsonOf(_request(sess.endpoint, sess.session_headers, sess.transport_log,
                    method, path, {}, outcome),
           op)

\* client.py:168-178
whoami(sess, outcome) ==
    PlainRequest(sess, "whoami", "GET", "/api/auth/me", outcome)

\* client.py:317-330
get_organization(sess, org_name, outcome) ==
    PlainRequest(sess, "get_organization", "GET", "/org/" \o org_name, outcome)

\* client.py:477-512: a repo_id without "/" is the name, with no organization
delete_repo(sess, repo_id, repo_type, outcome) ==
    PlainRequest(sess, "delete_repo", "DELETE", "/api/repos/delete", outcome)

\* squash_repo without the test of the repo_id
squash_repo_Unchecked(sess, repo_id, repo_type, outcome) ==
    PlainRequest(sess, "squash_repo", "POST", "/api/repos/squash", outcome)

\* client.py:514-547
squash_repo(sess, repo_id, repo_type, outcome) ==
    CheckedRequest(sess, "squash_repo", repo_id, "POST", "/api/repos/squash", outcome)

\* client.py:796-824
get_repo_lfs_settings(sess, repo_id, repo_type, outcome) ==
    CheckedRequest(sess, "get_repo_lfs_settings", repo_id, "GET",
                   RepoPath(repo_type, repo_id) \o "/settings/lfs", outcome)

\* client.py:826-857
move_repo(sess, from_repo, to_repo, repo_type, outcome) ==
    PlainRequest(sess, "move_repo", "POST", "/api/repos/move", outcome)

\* client.py:859-896
create_branch(sess, repo_id, branch, repo_type, outcome) ==
    CheckedRequest(sess, "create_branch", repo_id, "POST",
                   RepoPath(repo_type, repo_id) \o "/branch", outcome)

\* client.py:898-928
delete_branch(sess, repo_id, branch, repo_type, outcome) ==
    CheckedRequest(sess, "delete_branch", repo_id, "DELETE",
                   RepoPath(repo_type, repo_id) \o "/branch/" \o branch, outcome)

\* client.py:930-971
create_tag(sess, repo_id, tag, repo_type, outcome) ==
    CheckedRequest(sess, "create_tag", repo_id, "POST",
                   RepoPath(repo_type, repo_id) \o "/tag", outcome)

\* client.py:973-1003
delete_tag(sess, repo_id, tag, repo_type, outcome) ==
    CheckedRequest(sess, "delete_tag", repo_id, "DELETE",
                   RepoPath(repo_type, repo_id) \o "/tag/" \o tag, outcome)

\* client.py:1056-1093
list_commits(sess, repo_id, branch, repo_type, outcome) ==
    CheckedRequest(sess, "list_commits", repo_id, "GET",
                   RepoPath(repo_type, repo_id) \o "/commits/" \o branch, outcome)

\* client.py:1095-1123
get_commit_detail(sess, repo_id, commit_id, repo_type, outcome) ==
    CheckedRequest(sess, "get_commit_detail", repo_id, "GET",
                   RepoPath(repo_type, repo_id) \o "/commit/" \o commit_id, outcome)

\* client.py:1125-1153
get_commit_diff(sess, repo_id, commit_id, repo_type, outcome) ==
    CheckedRequest(sess, "get_commit_diff", repo_id, "GET",
                   RepoPath(repo_type, repo_id) \o "/commit/" \o commit_id \o "/diff",
                   outcome)

\* a dict built by the program: a set of <<key, value>>, like the headers
NoData == {}
DataKeys(data) == {d[1] : d \in data}
DataGet(data, key) == (CHOOSE d \in data : d[1] = key)[2]

\* client.py:777-787: the keys of data, each set when its argument is not None
SettingsData(lfs_threshold_bytes, lfs_keep_versions, lfs_suffix_rules) ==
    (IF lfs_threshold_bytes # None
     THEN {<<"lfs_threshold_bytes", lfs_threshold_bytes>>} ELSE {})
    \cup (IF lfs_keep_versions # None
          THEN {<<"lfs_keep_versions", lfs_keep_versions>>} ELSE {})
    \cup (IF lfs_suffix_rules # None
          THEN {<<"lfs_suffix_rules", lfs_suffix_rules>>} ELSE {})

\* client.py:743-794 (private and gated are None in the calls modelled);
\* json is the body of the request, sent tells whether there was a request
update_repo_settings(sess, repo_id, repo_type, lfs_threshold_bytes, lfs_keep_versions, lfs_suffix_rules, outcome) ==
    LET data == SettingsData(lfs_threshold_bytes, lfs_keep_versions,
                             lfs_suffix_rules)
        after == CheckedRequest(sess, "update_repo_settings", repo_id, "PUT",
                                RepoPath(repo_type, repo_id) \o "/settings", outcome)
    IN [endpoint |-> after.endpoint,
        session_headers |-> after.session_headers,
        transport_log |-> after.transport_log,
        result |-> after.result,
        sent |-> Contains(repo_id, "/"),
        json |-> IF Contains(repo_id, "/") THEN data ELSE NoData]

\* what health_check returns: health_info["api"]["status"],
\* health_info["api"]["error"] ("" when the key is not set) and
\* health_info["authenticated"]
HealthInfo(status, error, authenticated) ==
    [api_status |-> status, api_error |-> error, authenticated |-> authenticated]

\* client.py:1288-1326: session.get on /api/version without _request, then
\* whoami.  probe is what the transport does with the first request and
\* outcome what it does with whoami's.  The JSONDecodeError of response.json()
\* is a RequestException from requests 2.27 on and a plain ValueError before:
\* json_error_caught tells which requests is installed.  A body that is
\* JSON but no object makes data.get raise AttributeError.
health_check(sess, probe, outcome, json_error_caught) ==
    LET request == [method |-> "GET", url |-> sess.endpoint \o "/api/version",
                    headers |-> MergeHeaders(sess.session_headers, {})]
        probed == [endpoint |-> sess.endpoint,
                   session_headers |-> sess.session_headers,
                   transport_log |-> Append(sess.transport_log, request)]
        escapes ==
            IF probe.raised \/ ~ResponseOk(probe.response) THEN NoException
            ELSE IF ~probe.response.json.ok /\ ~json_error_caught
            THEN PyException("JSONDecodeError", "Expecting value")
            ELSE IF probe.response.json.ok /\ probe.response.json.t # "dict"
            THEN PyException("AttributeError", "object has no attribute 'get'")
            ELSE NoException
        status ==
            IF probe.raised THEN "unreachable"
            ELSE IF ~ResponseOk(probe.response)
            THEN "error (HTTP " \o IntToStr(probe.response.status_code) \o ")"
            ELSE IF ~probe.response.json.ok THEN "unreachable"
            ELSE "healthy"
        error ==
            IF probe.raised THEN probe.description
            ELSE IF ResponseOk(probe.response) /\ ~probe.response.json.ok
            THEN "Expecting value"
            ELSE ""
        me == whoami(probed, outcome)
    IN IF escapes # NoException
       THEN [endpoint |-> probed.endpoint,
             session_headers |-> probed.session_headers,
             transport_log |-> probed.transport_log,
             result |-> Raised("health_check", escapes)]
       ELSE [endpoint |-> me.endpoint,
             session_headers |-> me.session_headers,
             transport_log |-> me.transport_log,
             result |-> Returned("health_check",
                            HealthInfo(status, error,
                                /\ me.result.returned
                                /\ me.result.value.json.t = "dict"))]

(***************************************************************************)
(* cli.py, the transfer command: its arguments and its state before it     *)
(* runs.                                                                   *)
(***************************************************************************)
HuggingFace == "https://huggingface.co"

\* the arguments of the command (cli.py:2330) and whether huggingface_hub
\* can be imported
AllTransferArgs ==
    { [source_repo_id |-> "alice/m", dest_repo_id |-> dest,
       repo_type |-> repo_type, force |-> force, token |-> token,
       src_endpoint |-> src, target_endpoint |-> target,
       hf_installed |-> installed] :
         dest \in {"bob/m", "m"},
         repo_type \in {"auto", "model", "dataset"},
         force \in BOOLEAN,
         token \in {None, Str("tokB")},
         src \in {"hf", "http://src.example"},
         target \in {None, Str("http://dst.example")},
         installed \in BOOLEAN }

\* (whether huggingface_hub is installed matters for the source "hf" only)
TransferArgs ==
    {a \in AllTransferArgs : a.hf_installed \/ a.src_endpoint = "hf"}

NoArgs ==
    [source_repo_id |-> "", dest_repo_id |-> "", repo_type |-> "auto",
     force |-> FALSE, token |-> None, src_endpoint |-> "hf",
     target_endpoint |-> None, hf_installed |-> TRUE]

\* pending: the paths still to download; local: the download directory;
\* next: the entry of local the upload loop looks at next
NoFiles ==
    [pending |-> <<>>, local |-> <<>>, next |-> 1,
     uploaded |-> 0, skipped |-> 0, failed |-> <<>>]

TransferIdle ==
    /\ tpc = "idle"
    /\ targs = NoArgs
    /\ detected_repo_type = "auto"
    /\ tops = <<>>
    /\ tfiles = NoFiles
    /\ exit_code = 0 - 1

(***************************************************************************)
(* The state of the other commands before they run.                        *)
(***************************************************************************)
\* no argument, nothing in the environment, no config file
NoConstruction ==
    [endpoint_arg |-> None, token_arg |-> None,
     env |-> [HF_ENDPOINT |-> None, HF_TOKEN |-> None],
     file |-> [has_endpoint |-> FALSE, endpoint |-> None, token |-> None]]

\* the value stored under "history": t is its type ("absent" when the key
\* is missing) and items the entries of a list, oldest first
StoredHistory(t, items) == [t |-> t, items |-> items]
NoHistory == StoredHistory("absent", <<>>)

\* the options of a settings lfs command (value is --threshold or --count)
LfsArgs(command, repo_id, value, reset, add, remove, set, clear) ==
    [command |-> command, repo_id |-> repo_id, value |-> value, reset |-> reset,
     add_suffixes |-> add, remove_suffixes |-> remove, set_suffixes |-> set,
     clear |-> clear]
NoLfsArgs == LfsArgs("", "", None, FALSE, <<>>, <<>>, <<>>, FALSE)

\* a settings lfs command: its options, whether update_repo_settings sent its
\* request, the body of that request and the message the command prints
NoLfs == [args |-> NoLfsArgs, updated |-> FALSE, json |-> NoData, message |-> ""]

\* no operation of the client was called
NoCall == [op |-> "", repo_id |-> "", sent |-> 0]

\* upload_file was not called: no file, no arguments, nothing sent
NoUpload ==
    [local_exists |-> FALSE, content |-> <<>>, repo_path |-> "",
     commit_message |-> None, payload |-> None]

\* the file at a path: whether it exists and the text it holds
NoFile == [exists |-> FALSE, content |-> ""]
FileWith(content) == [exists |-> TRUE, content |-> content]

FilesIdle ==
    /\ upload = NoUpload
    /\ local_file = NoFile
    /\ listed = <<>>

LaterIdle ==
    /\ called = NoCall
    /\ probe_outcome = NoOutcome
    /\ seen = {}
    /\ history = NoHistory
    /\ lfs = NoLfs
    /\ username = None
    /\ console = [text |-> "", exc |-> NoException]
    /\ answer = None
    /\ FilesIdle

(***************************************************************************)
(* The client: construction, token assignments and requests.               *)
(***************************************************************************)
Init ==
    \E c \in Constructions :
        LET client == NewClient(c.endpoint_arg, c.token_arg, c.env, c.file)
        IN /\ endpoint = client.endpoint
           /\ session_headers = client.session_headers
           /\ last_assigned = client.last_assigned
           /\ transport_log = <<>>
           /\ last_outcome = NoOutcome
           /\ result = NoResult
           /\ construction = c
           /\ TransferIdle
           /\ LaterIdle

\* client.token = value
SetToken(value) ==
    /\ session_headers' = TokenSetter(session_headers, value)
    /\ last_assigned' = value
    /\ result' = Returned("token.setter", NoResponse)
    /\ UNCHANGED <<endpoint, transport_log, last_outcome>>
    /\ UNCHANGED transferVars
    /\ UNCHANGED laterVars

\* client._request(method, path, **kwargs)
Request(call, outcome) ==
    /\ Len(transport_log) < MaxSent
    /\ LET after == _request(endpoint, session_headers, transport_log,
                             call.method, call.path, call.headers, outcome)
       IN /\ endpoint' = after.endpoint
          /\ session_headers' = after.session_headers
          /\ transport_log' = after.transport_log
          /\ result' = after.result
    /\ last_outcome' = outcome
    /\ UNCHANGED last_assigned
    /\ UNCHANGED transferVars
    /\ UNCHANGED laterVars

Next ==
    \/ \E value \in TokenValues : SetToken(value)
    \/ \E call \in Calls, outcome \in TransportOutcomes : Request(call, outcome)

Spec == Init /\ [][Next]_vars

(***************************************************************************)
(* The classifier on its own, over every status and body.                  *)
(***************************************************************************)
InitErrors ==
    /\ endpoint = DefaultEndpoint
    /\ session_headers = DefaultHeaders
    /\ last_assigned = None
    /\ transport_log = <<>>
    /\ last_outcome = NoOutcome
    /\ result = NoResult
    /\ construction = NoConstruction
    /\ TransferIdle
    /\ LaterIdle

\* handle_response_error(response)
Classify(response) ==
    /\ last_outcome' = TransportDelivers(response)
    /\ result' = Classified("handle_response_error", response)
    /\ UNCHANGED <<endpoint, session_headers, last_assigned, transport_log>>
    /\ UNCHANGED transferVars
    /\ UNCHANGED laterVars

NextErrors == \E response \in AllResponses : Classify(response)

SpecErrors == InitErrors /\ [][NextErrors]_vars

(***************************************************************************)
(* cli.py:2330-2635, the transfer command, one action for each hub         *)
(* operation it issues.                                                    *)
(***************************************************************************)
\* cli.py:2364-2370 (target "hf" is not among the arguments modelled)
SourceEndpointOf(a) == IF a.src_endpoint = "hf" THEN HuggingFace ELSE a.src_endpoint
TargetEndpointOf(a, client_endpoint) ==
    IF Truthy(a.target_endpoint)
    THEN IF a.target_endpoint.s = "hf" THEN HuggingFace ELSE a.target_endpoint.s
    ELSE client_endpoint

\* cli.py:2376-2388 (--src-token, --target-token and --hf-token are not given)
FinalSourceTokenOf(a) ==
    IF SourceEndpointOf(a) = HuggingFace THEN None ELSE a.token
FinalTargetTokenOf(a, client_endpoint) ==
    IF TargetEndpointOf(a, client_endpoint) = HuggingFace THEN None ELSE a.token

SourceEndpoint == SourceEndpointOf(targs)
SourceIsHF == SourceEndpoint = HuggingFace
TargetEndpoint == TargetEndpointOf(targs, endpoint)
TargetIsClient == TargetEndpoint = endpoint

\* KohubClient(endpoint=..., token=..., config=Config()) inside the command;
\* the configuration gives this client only its fallback token, on which no
\* result depends
InnerClient(ep, token) ==
    NewClient(Str(ep), token,
              [HF_ENDPOINT |-> None, HF_TOKEN |-> None],
              [has_endpoint |-> FALSE, endpoint |-> None, token |-> None])

\* cli.py:2426, 2456, 2502
SourceSession == SessionOf(InnerClient(SourceEndpoint, FinalSourceTokenOf(targs)))

\* cli.py:2391-2398
TargetSession ==
    IF TargetIsClient THEN ClientSession
    ELSE SessionOf(InnerClient(TargetEndpoint, FinalTargetTokenOf(targs, endpoint)))

\* what the hubs answer to the command
TransferOutcomes ==
    { TransportRaises("Connection refused"),
      TransportDelivers(Response(200, "{}", JObject(None, None))),
      TransportDelivers(Response(404, "{\"detail\": \"Repository not found\"}",
                                 JObject(Str("Repository not found"), None))),
      TransportDelivers(Response(400, "{\"detail\": [\"Invalid name\"]}",
                                 JObject(List_("[\"Invalid name\"]", 1), None))),
      TransportDelivers(Response(500, "", ParseFail)) }

\* how a call into huggingface_hub ends
HfOutcomes == {"ok", "RepositoryNotFoundError", "HfHubHTTPError"}

\* what a source hub does with one operation
AllSourceOutcomes ==
    {[hf |-> h, transport |-> NoOutcome] : h \in HfOutcomes}
    \cup {[hf |-> "", transport |-> t] : t \in TransferOutcomes}

\* what the source hub of this command does with one operation
SourceOutcomes ==
    IF SourceIsHF
    THEN {[hf |-> h, transport |-> NoOutcome] : h \in HfOutcomes}
    ELSE {[hf |-> "", transport |-> t] : t \in TransferOutcomes}

\* cli.py:2414-2435, 2449-2460: repo_info on the source hub
SourceRepoInfo(repo_type, o) ==
    IF SourceIsHF
    THEN IF o.hf = "ok" THEN Returned("repo_info", NoResponse)
         ELSE IF o.hf = "RepositoryNotFoundError"
              THEN Raised("repo_info",
                          PyException("RepositoryNotFoundError", "404 Client Error"))
              ELSE Raised("repo_info", PyException("HfHubHTTPError", "500 Server Error"))
    ELSE repo_info(SourceSession, targs.source_repo_id, repo_type, o.transport).result

\* except RepositoryNotFoundError / except NotFoundError
SourceNotFound(r) ==
    /\ ~r.returned
    /\ r.exc.kind = IF SourceIsHF THEN "RepositoryNotFoundError" ELSE "NotFoundError"

\* the hub operations issued so far, with the one just issued
Issued(client, op) == Append(tops, [client |-> client, op |-> op])

\* cli.py:2634-2635 and cli.py:87-116: handle_error(e, ctx) and sys.exit(1)
HandleError(e) ==
    /\ result' = Raised("transfer", e)
    /\ tpc' = "exit"
    /\ exit_code' = 1

\* cli.py:2247-2268: huggingface_hub is missing
HubMissing == PyException("ImportError", "huggingface_hub is required")

\* cli.py:2358-2404
TransferStart(a) ==
    /\ tpc = "idle"
    /\ targs' = a
    /\ detected_repo_type' = a.repo_type
    /\ tpc' = IF a.repo_type = "auto" THEN "detect_model" ELSE "verify"
    /\ IF /\ TargetEndpointOf(a, endpoint) = endpoint
          /\ Truthy(FinalTargetTokenOf(a, endpoint))
       THEN /\ session_headers' =
                   TokenSetter(session_headers, FinalTargetTokenOf(a, endpoint))
            /\ last_assigned' = FinalTargetTokenOf(a, endpoint)
            /\ result' = Returned("token.setter", NoResponse)
       ELSE UNCHANGED <<session_headers, last_assigned, result>>
    /\ UNCHANGED <<endpoint, transport_log, last_outcome, tops, tfiles, exit_code>>
    /\ UNCHANGED laterVars

\* cli.py:2402-2417, 2423-2430: is the source a model?
TransferDetectModel(o) ==
    /\ tpc = "detect_model"
    /\ o \in SourceOutcomes
    /\ IF SourceIsHF /\ ~targs.hf_installed
       THEN HandleError(HubMissing) /\ UNCHANGED <<detected_repo_type, tops>>
       ELSE LET r == SourceRepoInfo("model", o)
            IN /\ tops' = Issued("source", "repo_info")
               /\ IF r.returned
                  THEN /\ detected_repo_type' = "model"
                       /\ tpc' = "probe"
                       /\ result' = r
                       /\ UNCHANGED exit_code
                  ELSE IF SourceNotFound(r)
                  THEN /\ tpc' = "detect_dataset"
                       /\ result' = r
                       /\ UNCHANGED <<detected_repo_type, exit_code>>
                  ELSE HandleError(r.exc) /\ UNCHANGED detected_repo_type
    /\ last_outcome' = o.transport
    /\ UNCHANGED <<clientVars, targs, tfiles>>
    /\ UNCHANGED laterVars

\* cli.py:2418-2422, 2431-2435: or a dataset?
TransferDetectDataset(o) ==
    /\ tpc = "detect_dataset"
    /\ o \in SourceOutcomes
    /\ LET r == SourceRepoInfo("dataset", o)
       IN /\ tops' = Issued("source", "repo_info")
          /\ IF r.returned
             THEN /\ detected_repo_type' = "dataset"
                  /\ tpc' = "probe"
                  /\ result' = r
                  /\ UNCHANGED exit_code
             ELSE IF SourceNotFound(r)
             THEN /\ HandleError(KohubError("NotFoundError",
                         Str("Repository '" \o targs.source_repo_id
                             \o "' not found on " \o SourceEndpoint),
                         None, NoResponse))
                  /\ UNCHANGED detected_repo_type
             ELSE HandleError(r.exc) /\ UNCHANGED detected_repo_type
    /\ last_outcome' = o.transport
    /\ UNCHANGED <<clientVars, targs, tfiles>>
    /\ UNCHANGED laterVars

\* cli.py:2439-2460: the source with the repository type given
TransferVerify(o) ==
    /\ tpc = "verify"
    /\ o \in SourceOutcomes
    /\ IF SourceIsHF /\ ~targs.hf_installed
       THEN HandleError(HubMissing) /\ UNCHANGED tops
       ELSE LET r == SourceRepoInfo(detected_repo_type, o)
            IN /\ tops' = Issued("source", "repo_info")
               /\ IF r.returned
                  THEN tpc' = "probe" /\ result' = r /\ UNCHANGED exit_code
                  ELSE IF SourceNotFound(r)
                  THEN HandleError(KohubError("NotFoundError",
                           Str("Repository '" \o targs.source_repo_id
                               \o "' not found as " \o detected_repo_type
                               \o " on " \o SourceEndpoint),
                           None, NoResponse))
                  ELSE HandleError(r.exc)
    /\ last_outcome' = o.transport
    /\ UNCHANGED <<clientVars, targs, detected_repo_type, tfiles>>
    /\ UNCHANGED laterVars

\* the session of the command-line client after an operation on the target
TargetDone(after) ==
    IF TargetIsClient
    THEN /\ endpoint' = after.endpoint
         /\ session_headers' = after.session_headers
         /\ transport_log' = after.transport_log
    ELSE UNCHANGED <<endpoint, session_headers, transport_log>>

\* a probe that takes every error for a destination that does not exist
TransferProbe_ErrorsMeanAbsent(outcome) ==
    /\ tpc = "probe"
    /\ outcome \in TransferOutcomes
    /\ IF ~Contains(targs.dest_repo_id, "/")
       THEN /\ HandleError(PyException("ValueError",
                   "Destination repo_id must be in format 'namespace/name'"))
            /\ UNCHANGED <<endpoint, session_headers, transport_log, tops,
                           last_outcome>>
       ELSE LET after == repo_info(TargetSession, targs.dest_repo_id,
                                   detected_repo_type, outcome)
                r == after.result
            IN /\ TargetDone(after)
               /\ tops' = Issued("target", "repo_info")
               /\ last_outcome' = outcome
               /\ IF r.returned
                  THEN IF ~targs.force
                       THEN HandleError(KohubError("AlreadyExistsError",
                                Str("Repository '" \o targs.dest_repo_id
                                    \o "' already exists. Use --force to overwrite."),
                                None, NoResponse))
                       ELSE tpc' = "download" /\ result' = r /\ UNCHANGED exit_code
                  ELSE tpc' = "download" /\ result' = r /\ UNCHANGED exit_code
    /\ UNCHANGED <<last_assigned, targs, detected_repo_type, tfiles>>
    /\ UNCHANGED laterVars

\* cli.py:2462-2473: does the destination exist?
TransferProbe(outcome) ==
    /\ tpc = "probe"
    /\ outcome \in TransferOutcomes
    /\ IF ~Contains(targs.dest_repo_id, "/")
       THEN /\ HandleError(PyException("ValueError",
                   "Destination repo_id must be in format 'namespace/name'"))
            /\ UNCHANGED <<endpoint, session_headers, transport_log, tops,
                           last_outcome>>
       ELSE LET after == repo_info(TargetSession, targs.dest_repo_id,
                                   detected_repo_type, outcome)
                r == after.result
            IN /\ TargetDone(after)
               /\ tops' = Issued("target", "repo_info")
               /\ last_outcome' = outcome
               /\ IF r.returned
                  THEN IF ~targs.force
                       THEN HandleError(KohubError("AlreadyExistsError",
                                Str("Repository '" \o targs.dest_repo_id
                                    \o "' already exists. Use --force to overwrite."),
                                None, NoResponse))
                       ELSE tpc' = "download" /\ result' = r /\ UNCHANGED exit_code
                  ELSE IF r.exc.kind = "NotFoundError"
                  THEN tpc' = "download" /\ result' = r /\ UNCHANGED exit_code
                  ELSE HandleError(r.exc)
    /\ UNCHANGED <<last_assigned, targs, detected_repo_type, tfiles>>
    /\ UNCHANGED laterVars

(***************************************************************************)
(* cli.py:2228-2236 and the paths of the files transferred.                *)
(***************************************************************************)
\* path.split("/") of a path without empty components
RECURSIVE PartsOf(_)
PartsOf(path) ==
    IF ~Contains(path, "/") THEN <<path>>
    ELSE <<NamespaceOf(path)>> \o PartsOf(NameOf(path))

\* "/".join(parts)
RECURSIVE JoinParts(_)
JoinParts(parts) ==
    IF Len(parts) = 1 THEN parts[1]
    ELSE parts[1] \o "/" \o JoinParts(Tail(parts))

\* str.endswith
EndsWith(str, suffix) ==
    /\ Len(str) >= Len(suffix)
    /\ SubSeq(str, Len(str) - Len(suffix) + 1, Len(str)) = suffix

SkipPatterns == {".git", ".cache", "__pycache__", ".pytest_cache",
                 "node_modules", ".huggingface", ".DS_Store"}

\* cli.py:2228-2236, on the parts of the path
should_skip_file(parts) ==
    LET name == parts[Len(parts)]
    IN \/ StartsWith(name, ".")
       \/ \E i \in 1..Len(parts) : parts[i] \in SkipPatterns
       \/ \E suffix \in {".lock", ".tmp", ".temp"} : EndsWith(name, suffix)

\* the parts of tempfile.TemporaryDirectory()
TempDirParts == <<"/", "tmp", "tmpk3x9">>

\* the download directory after a file is written at path, its parent
\* directories made first (cli.py:2543-2546)
AddLocal(local, path) ==
    LET parts == PartsOf(path)
        dirs == [i \in 1..(Len(parts) - 1) |->
                    [path |-> JoinParts(SubSeq(parts, 1, i)), is_file |-> FALSE]]
        known == {local[i] : i \in 1..Len(local)}
        fresh == SelectSeq(dirs, LAMBDA d : d \notin known)
    IN local \o fresh \o <<[path |-> path, is_file |-> TRUE]>>

RECURSIVE AddAllLocal(_, _)
AddAllLocal(local, paths) ==
    IF paths = <<>> THEN local
    ELSE AddAllLocal(AddLocal(local, Head(paths)), Tail(paths))

\* the entries a source repository lists
TreeEntries ==
    { [type |-> "file", path |-> "config.json"],
      [type |-> "file", path |-> ".gitattributes"],
      [type |-> "directory", path |-> "weights"],
      [type |-> "file", path |-> "weights/model.bin"] }

\* sequences of distinct elements of a set, up to a length
DistinctSeqs(S, n) ==
    {q \in UNION {[1..k -> S] : k \in 0..n} :
        \A i, j \in 1..Len(q) : i # j => q[i] # q[j]}

Listings == DistinctSeqs(TreeEntries, MaxFiles)

\* the body of the tree response that lists the entries
RECURSIVE EntriesText(_)
EntriesText(entries) ==
    IF entries = <<>> THEN ""
    ELSE "{\"type\": \"" \o Head(entries).type \o "\", \"path\": \""
         \o Head(entries).path \o "\"}"
         \o (IF Len(entries) > 1 THEN ", " ELSE "") \o EntriesText(Tail(entries))
ListingResponse(entries) == Response(200, "[" \o EntriesText(entries) \o "]", JOther("list"))

\* what the source hub answers to list_repo_tree: the tree, or a failure
ListOutcomes(entries) ==
    {o \in TransferOutcomes : o.raised \/ ~ResponseOk(o.response)}
    \cup {TransportDelivers(ListingResponse(entries))}

\* the files snapshot_download leaves in the download directory
SnapshotFiles == {"config.json", ".cache/huggingface/.gitignore", "model.lock"}
Snapshots == DistinctSeqs(SnapshotFiles, MaxFiles)

\* cli.py:2516-2523: the files to download (--include-lfs is a flag that
\* defaults to True, so include_lfs is always True)
RECURSIVE FilesToDownload(_)
FilesToDownload(entries) ==
    IF entries = <<>> THEN <<>>
    ELSE LET f == Head(entries)
         IN (IF f.type # "directory" /\ f.path # ""
                /\ ~should_skip_file(PartsOf(f.path))
             THEN <<f.path>> ELSE <<>>)
            \o FilesToDownload(Tail(entries))

\* str(e) of an exception whose message is a str
StrOf(e) == e.message.s

\* cli.py:2497, 2563
DownloadFailed(e) ==
    KohubError("NetworkError",
               Str("Failed to download from " \o SourceEndpoint \o ": " \o StrOf(e)),
               None, NoResponse)

\* cli.py:2480-2497: snapshot_download from the HuggingFace Hub
TransferSnapshot(hf, snapshot) ==
    /\ tpc = "download"
    /\ SourceIsHF
    /\ tops' = Issued("source", "snapshot_download")
    /\ IF hf = "ok"
       THEN /\ tfiles' = [tfiles EXCEPT !.local = AddAllLocal(<<>>, snapshot)]
            /\ tpc' = "ensure"
            /\ result' = Returned("snapshot_download", NoResponse)
            /\ UNCHANGED exit_code
       ELSE /\ HandleError(DownloadFailed(PyException(hf, "download failed")))
            /\ UNCHANGED tfiles
    /\ last_outcome' = NoOutcome
    /\ UNCHANGED <<clientVars, targs, detected_repo_type>>
    /\ UNCHANGED laterVars

\* cli.py:2499-2534: the file list of a custom source hub
TransferList(outcome, entries) ==
    /\ tpc = "download"
    /\ ~SourceIsHF
    /\ LET after == list_repo_tree(SourceSession, targs.source_repo_id,
                                   detected_repo_type, outcome)
           r == after.result
       IN /\ tops' = Issued("source", "list_repo_tree")
          /\ IF r.returned
             THEN /\ tfiles' = [tfiles EXCEPT !.pending = FilesToDownload(entries)]
                  /\ tpc' = IF FilesToDownload(entries) = <<>> THEN "ensure" ELSE "fetch"
                  /\ result' = r
                  /\ UNCHANGED exit_code
             ELSE HandleError(DownloadFailed(r.exc)) /\ UNCHANGED tfiles
    /\ last_outcome' = outcome
    /\ UNCHANGED <<clientVars, targs, detected_repo_type>>
    /\ UNCHANGED laterVars

\* cli.py:2538-2563: one file from a custom source hub
TransferFetch(outcome) ==
    /\ tpc = "fetch"
    /\ tfiles.pending # <<>>
    /\ LET path == Head(tfiles.pending)
           after == download_file(SourceSession, targs.source_repo_id, path,
                                  detected_repo_type, outcome)
           r == after.result
       IN /\ tops' = Issued("source", "download_file")
          /\ IF r.returned
             THEN /\ tfiles' = [tfiles EXCEPT !.pending = Tail(@),
                                             !.local = AddLocal(@, path)]
                  /\ tpc' = IF Tail(tfiles.pending) = <<>> THEN "ensure" ELSE "fetch"
                  /\ result' = r
                  /\ UNCHANGED exit_code
             ELSE HandleError(DownloadFailed(r.exc)) /\ UNCHANGED tfiles
    /\ last_outcome' = outcome
    /\ UNCHANGED <<clientVars, targs, detected_repo_type>>
    /\ UNCHANGED laterVars

\* cli.py:2566-2568: does the destination exist now?
TransferEnsure(outcome) ==
    /\ tpc = "ensure"
    /\ LET after == repo_info(TargetSession, targs.dest_repo_id,
                              detected_repo_type, outcome)
           r == after.result
       IN /\ TargetDone(after)
          /\ tops' = Issued("target", "repo_info")
          /\ IF r.returned
             THEN tpc' = "upload" /\ result' = r /\ UNCHANGED exit_code
             ELSE IF r.exc.kind = "NotFoundError"
             THEN tpc' = "create" /\ result' = r /\ UNCHANGED exit_code
             ELSE HandleError(r.exc)
    /\ last_outcome' = outcome
    /\ UNCHANGED <<last_assigned, targs, detected_repo_type, tfiles>>
    /\ UNCHANGED laterVars

\* cli.py:2568-2575: create it
TransferCreate(outcome) ==
    /\ tpc = "create"
    /\ LET after == create_repo(TargetSession, targs.dest_repo_id,
                                detected_repo_type, outcome)
           r == after.result
       IN /\ TargetDone(after)
          /\ tops' = Issued("target", "create_repo")
          /\ IF r.returned
             THEN tpc' = "upload" /\ result' = r /\ UNCHANGED exit_code
             ELSE HandleError(r.exc)
    /\ last_outcome' = outcome
    /\ UNCHANGED <<last_assigned, targs, detected_repo_type, tfiles>>
    /\ UNCHANGED laterVars

\* an upload loop that ends the command at the first upload that fails
TransferUpload_AbortsOnFailure(outcome) ==
    /\ tpc = "upload"
    /\ tfiles.next <= Len(tfiles.local)
    /\ LET entry == tfiles.local[tfiles.next]
           after == upload_file(TargetSession, TRUE, targs.dest_repo_id,
                                entry.path, detected_repo_type, outcome)
           r == after.result
       IN IF entry.is_file /\ ~should_skip_file(TempDirParts \o PartsOf(entry.path))
          THEN /\ TargetDone(after)
               /\ tops' = Issued("target", "upload_file")
               /\ last_outcome' = outcome
               /\ IF r.returned
                  THEN /\ result' = r
                       /\ tfiles' = [tfiles EXCEPT !.next = @ + 1,
                                                   !.uploaded = @ + 1]
                       /\ UNCHANGED <<tpc, exit_code>>
                  ELSE /\ HandleError(r.exc)
                       /\ UNCHANGED tfiles
          ELSE /\ tfiles' = IF entry.is_file
                            THEN [tfiles EXCEPT !.next = @ + 1, !.skipped = @ + 1]
                            ELSE [tfiles EXCEPT !.next = @ + 1]
               /\ UNCHANGED <<endpoint, session_headers, transport_log, tops,
                              last_outcome, result, tpc, exit_code>>
    /\ UNCHANGED <<last_assigned, targs, detected_repo_type>>
    /\ UNCHANGED laterVars

\* cli.py:2586-2609: one turn of the upload loop, over the entries of the
\* download directory in the order they were made
TransferUpload(outcome) ==
    /\ tpc = "upload"
    /\ tfiles.next <= Len(tfiles.local)
    /\ LET entry == tfiles.local[tfiles.next]
           after == upload_file(TargetSession, TRUE, targs.dest_repo_id,
                                entry.path, detected_repo_type, outcome)
           r == after.result
       IN IF entry.is_file /\ ~should_skip_file(TempDirParts \o PartsOf(entry.path))
          THEN /\ TargetDone(after)
               /\ tops' = Issued("target", "upload_file")
               /\ last_outcome' = outcome
               /\ result' = r
               /\ tfiles' = IF r.returned
                            THEN [tfiles EXCEPT !.next = @ + 1, !.uploaded = @ + 1]
                            ELSE [tfiles EXCEPT !.next = @ + 1,
                                      !.failed = Append(@, [file |-> entry.path,
                                                            error |-> StrOf(r.exc)])]
          ELSE /\ tfiles' = IF entry.is_file
                            THEN [tfiles EXCEPT !.next = @ + 1, !.skipped = @ + 1]
                            ELSE [tfiles EXCEPT !.next = @ + 1]
               /\ UNCHANGED <<endpoint, session_headers, transport_log, tops,
                              last_outcome, result>>
    /\ UNCHANGED <<last_assigned, tpc, targs, detected_repo_type, exit_code>>
    /\ UNCHANGED laterVars

\* cli.py:2611-2632: the report; the command ends without an error
TransferFinish ==
    /\ tpc = "upload"
    /\ tfiles.next > Len(tfiles.local)
    /\ tpc' = "done"
    /\ exit_code' = 0
    /\ result' = Returned("transfer", NoResponse)
    /\ UNCHANGED <<clientVars, last_outcome, targs, detected_repo_type, tops, tfiles>>
    /\ UNCHANGED laterVars

NextTransfer ==
    \/ \E a \in TransferArgs : TransferStart(a)
    \/ \E o \in AllSourceOutcomes : TransferDetectModel(o)
    \/ \E o \in AllSourceOutcomes : TransferDetectDataset(o)
    \/ \E o \in AllSourceOutcomes : TransferVerify(o)
    \/ \E outcome \in TransferOutcomes : TransferProbe(outcome)
    \/ \E hf \in HfOutcomes, snapshot \in Snapshots : TransferSnapshot(hf, snapshot)
    \/ \E entries \in Listings :
          \E outcome \in ListOutcomes(entries) : TransferList(outcome, entries)
    \/ \E outcome \in TransferOutcomes : TransferFetch(outcome)
    \/ \E outcome \in TransferOutcomes : TransferEnsure(outcome)
    \/ \E outcome \in TransferOutcomes : TransferCreate(outcome)
    \/ \E outcome \in TransferOutcomes : TransferUpload(outcome)
    \/ TransferFinish

SpecTransfer == Init /\ [][NextTransfer]_vars

(***************************************************************************)
(* The operations of the client, each called on a new client.              *)
(***************************************************************************)
\* operations after which no further operation is explored
MaxCalls == 1

\* what the hub answers to an operation
OpOutcomes ==
    TransferOutcomes \cup
    { TransportDelivers(Response(200, "", ParseFail)),
      TransportDelivers(Response(200, "[]", JOther("list"))),
      TransportDelivers(Response(401, "{\"detail\": \"Invalid token\"}",
                                 JObject(Str("Invalid token"), None))) }

\* a repo_id with a namespace and one without
RepoIds == {"alice/m", "m"}

\* the operations that take a repo_id
RepoOps ==
    {"repo_info", "create_repo", "list_repo_tree", "squash_repo",
     "update_repo_settings", "get_repo_lfs_settings", "create_branch",
     "delete_branch", "create_tag", "delete_tag", "list_commits",
     "get_commit_detail", "get_commit_diff", "upload_file", "download_file",
     "delete_repo", "move_repo"}

\* client.<op>(repo_id, ...) with the other arguments fixed; local_exists
\* tells whether the file upload_file is given exists
RepoOp(op, sess, repo_id, local_exists, outcome) ==
    CASE op = "repo_info" -> repo_info(sess, repo_id, "model", outcome)
      [] op = "create_repo" -> create_repo(sess, repo_id, "model", outcome)
      [] op = "list_repo_tree" -> list_repo_tree(sess, repo_id, "model", outcome)
      [] op = "squash_repo" -> squash_repo(sess, repo_id, "model", outcome)
      [] op = "update_repo_settings" ->
            LET after == update_repo_settings(sess, repo_id, "model",
                                              Int_(5000000), None, None, outcome)
            IN [endpoint |-> after.endpoint,
                session_headers |-> after.session_headers,
                transport_log |-> after.transport_log,
                result |-> after.result]
      [] op = "get_repo_lfs_settings" ->
            get_repo_lfs_settings(sess, repo_id, "model", outcome)
      [] op = "create_branch" -> create_branch(sess, repo_id, "dev", "model", outcome)
      [] op = "delete_branch" -> delete_branch(sess, repo_id, "dev", "model", outcome)
      [] op = "create_tag" -> create_tag(sess, repo_id, "v1", "model", outcome)
      [] op = "delete_tag" -> delete_tag(sess, repo_id, "v1", "model", outcome)
      [] op = "list_commits" -> list_commits(sess, repo_id, "main", "model", outcome)
      [] op = "get_commit_detail" ->
            get_commit_detail(sess, repo_id, "abc123", "model", outcome)
      [] op = "get_commit_diff" ->
            get_commit_diff(sess, repo_id, "abc123", "model", outcome)
      [] op = "upload_file" ->
            upload_file(sess, local_exists, repo_id, "f.bin", "model", outcome)
      [] op = "download_file" ->
            LET after == download_file(sess, repo_id, "f.bin", "model", outcome)
            IN [endpoint |-> after.endpoint,
                session_headers |-> after.session_headers,
                transport_log |-> after.transport_log,
                result |-> after.result]
      [] op = "delete_repo" -> delete_repo(sess, repo_id, "model", outcome)
      [] op = "move_repo" -> move_repo(sess, repo_id, "bob/m", "model", outcome)

\* the client after an operation
Leaves(after) ==
    /\ endpoint' = after.endpoint
    /\ session_headers' = after.session_headers
    /\ transport_log' = after.transport_log
    /\ result' = after.result

\* the guard and the frame of the operations
OneCall(op, repo_id) ==
    /\ Len(transport_log) < MaxCalls
    /\ called' = [op |-> op, repo_id |-> repo_id, sent |-> Len(transport_log)]
    /\ UNCHANGED <<last_assigned, seen, construction, history, lfs>>
    /\ UNCHANGED transferVars
    /\ UNCHANGED menuVars
    /\ UNCHANGED fileVars

\* an operation that takes a repo_id
CallRepoOp(op, repo_id, local_exists, outcome) ==
    /\ OneCall(op, repo_id)
    /\ LET after == RepoOp(op, ClientSession, repo_id, local_exists, outcome)
       IN /\ Leaves(after)
          /\ last_outcome' = IF after.transport_log # transport_log
                             THEN outcome ELSE last_outcome
    /\ UNCHANGED probe_outcome

\* client.whoami()
CallWhoami(outcome) ==
    /\ OneCall("whoami", "")
    /\ Leaves(whoami(ClientSession, outcome))
    /\ last_outcome' = outcome
    /\ UNCHANGED probe_outcome

\* client.get_organization(org_name)
CallGetOrganization(outcome) ==
    /\ OneCall("get_organization", "")
    /\ Leaves(get_organization(ClientSession, "my-org", outcome))
    /\ last_outcome' = outcome
    /\ UNCHANGED probe_outcome

\* client.health_check()
CallHealthCheck(probe, outcome, json_error_caught) ==
    /\ OneCall("health_check", "")
    /\ LET after == health_check(ClientSession, probe, outcome, json_error_caught)
       IN /\ Leaves(after)
          /\ last_outcome' = IF Len(after.transport_log) = Len(transport_log) + 2
                             THEN outcome ELSE probe
    /\ probe_outcome' = probe

NextOps ==
    \/ \E op \in RepoOps, repo_id \in RepoIds, local_exists \in BOOLEAN,
          outcome \in OpOutcomes :
          CallRepoOp(op, repo_id, local_exists, outcome)
    \/ \E outcome \in OpOutcomes : CallWhoami(outcome)
    \/ \E outcome \in OpOutcomes : CallGetOrganization(outcome)
    \/ \E probe \in OpOutcomes, outcome \in OpOutcomes, caught \in BOOLEAN :
          CallHealthCheck(probe, outcome, caught)

SpecOps == Init /\ [][NextOps]_vars

(***************************************************************************)
(* The interactive mode: cli.py's interactive command builds the state of  *)
(* main.py, whose menus change the endpoint and the token of state.client  *)
(* and call its operations.  The client variables are those of             *)
(* state.client.                                                           *)
(***************************************************************************)
\* what the hub answers in the interactive mode
MenuOutcomes == TransferOutcomes

\* what the hub answers to whoami and to logout: a failure of the transport,
\* the user, a dict without the user, a refusal, a body that is not JSON
SessionOutcomes ==
    { TransportRaises("Connection refused"),
      TransportDelivers(Response(200, "{\"username\": \"alice\"}",
                                 JUser(Str("alice")))),
      TransportDelivers(Response(200, "{}", JObject(None, None))),
      TransportDelivers(Response(401, "{\"detail\": \"Invalid token\"}",
                                 JObject(Str("Invalid token"), None))),
      TransportDelivers(Response(500, "", ParseFail)) }

\* what the hub answers to the whoami of the startup
StartupOutcomes ==
    {o \in SessionOutcomes : o.raised \/ o.response.status_code \in {200, 401}}

\* the ways the command line, the environment and the config file are set
\* when the interactive command starts
InteractiveConstructions ==
    Constructions \cup
    { [endpoint_arg |-> None, token_arg |-> None,
       env |-> [HF_ENDPOINT |-> Str("http://env.example/"), HF_TOKEN |-> None],
       file |-> [has_endpoint |-> FALSE, endpoint |-> None, token |-> None]],
      [endpoint_arg |-> None, token_arg |-> None,
       env |-> [HF_ENDPOINT |-> None, HF_TOKEN |-> None],
       file |-> [has_endpoint |-> TRUE, endpoint |-> Str("http://file.example//"),
                 token |-> None]] }

\* GET /api/auth/me as a client with this endpoint and these headers sends it
WhoamiRequest(ep, headers) ==
    [method |-> "GET", url |-> ep \o "/api/auth/me",
     headers |-> MergeHeaders(headers, {})]

\* what a menu operation printed last: its text and the exception it shows
Line(text) == [text |-> text, exc |-> NoException]
ErrorLine(text, exc) == [text |-> text, exc |-> exc]
NoLine == Line("")

\* data.get("username") on a dict
UsernameOf(json) ==
    IF "username" \in DOMAIN json THEN json.username ELSE None

\* user_info = client.whoami(); user_info.get("username"), inside a try:
\* ok tells whether the block ended without an exception, exc is the
\* exception otherwise (a value that is not a dict has no get)
WhoamiUsername(sess, outcome) ==
    LET after == whoami(sess, outcome)
        ok == after.result.returned /\ after.result.value.json.t = "dict"
    IN [after |-> after,
        ok |-> ok,
        username |-> IF ok THEN UsernameOf(after.result.value.json) ELSE None,
        exc |-> IF ~after.result.returned THEN after.result.exc
                ELSE IF ~ok
                THEN PyException("AttributeError",
                         "'" \o after.result.value.json.t
                             \o "' object has no attribute 'get'")
                ELSE NoException]

StoredTokenInvalid == "Stored token is invalid, please login again"

\* main.py:80-107, InteractiveState.__init__: state.client, state.username
\* and what it prints
InteractiveState(c, outcome) ==
    LET ep == Or_(c.env.HF_ENDPOINT, ConfigEndpoint(c.env, c.file))
        token == Or_(c.env.HF_TOKEN, ConfigToken(c.env, c.file))
        client == NewClient(ep, token, c.env, c.file)
        who == WhoamiUsername(SessionOf(client), outcome)
    IN [endpoint |-> client.endpoint,
        session_headers |-> client.session_headers,
        last_assigned |-> client.last_assigned,
        transport_log |-> IF Truthy(token) THEN who.after.transport_log
                          ELSE <<>>,
        username |-> IF Truthy(token) THEN who.username ELSE None,
        console |-> IF Truthy(token) /\ ~who.ok THEN Line(StoredTokenInvalid)
                    ELSE NoLine]

\* cli.py:2641-2667, interactive: the overrides from the client of the
\* command line on state, the InteractiveState() it has just built
interactive(c, state, second) ==
    LET client == NewClient(c.endpoint_arg, c.token_arg, c.env, c.file)
        ep == IF client.endpoint # "http://localhost:28080"
              THEN client.endpoint ELSE state.endpoint
        token == TokenGetter(client.session_headers)
        headers == IF Truthy(token)
                   THEN TokenSetter(state.session_headers, token)
                   ELSE state.session_headers
        who == WhoamiUsername([endpoint |-> ep, session_headers |-> headers,
                               transport_log |-> state.transport_log], second)
    IN [endpoint |-> ep,
        session_headers |-> headers,
        last_assigned |-> IF Truthy(token) THEN token ELSE state.last_assigned,
        transport_log |-> IF Truthy(token) THEN who.after.transport_log
                          ELSE state.transport_log,
        username |-> IF Truthy(token) /\ who.ok THEN who.username
                     ELSE state.username,
        console |-> state.console,
        refreshed |-> Truthy(token)]

InitInteractive ==
    \E c \in InteractiveConstructions, first \in StartupOutcomes,
       second \in StartupOutcomes :
        \E built \in {InteractiveState(c, first)} :
        \E state \in {interactive(c, built, second)} :
           /\ endpoint = state.endpoint
           /\ session_headers = state.session_headers
           /\ last_assigned = state.last_assigned
           /\ transport_log = state.transport_log
           /\ last_outcome = IF state.transport_log = <<>> THEN NoOutcome
                             ELSE IF state.refreshed THEN second ELSE first
           /\ result = Returned("interactive", NoResponse)
           /\ construction = c
           /\ TransferIdle
           /\ called = NoCall
           /\ probe_outcome = NoOutcome
           /\ seen = {}
           /\ history = NoHistory
           /\ lfs = NoLfs
           /\ username = state.username
           /\ console = state.console
           /\ answer = None
           /\ FilesIdle

\* the texts typed as the endpoint: questionary accepts those that start
\* with "http", and ask() gives None when the prompt is cancelled
EndpointTexts ==
    {None, Str("http://hub.example/"), Str("https://other.example")}

\* the tokens typed: not empty, or None when the prompt is cancelled
TokenTexts == {None, Str("tokA"), Str("tokB")}

\* the answers to a confirmation: yes, no, or None when it is cancelled
Confirmations == {None, Bool_(TRUE), Bool_(FALSE)}

\* the classification of a response, with the client it was made for
Seen(response, exc, headers, ep, log) ==
    [response |-> response, kind |-> exc.kind, message |-> exc.message,
     status_code |-> exc.status_code, token |-> TokenGetter(headers),
     endpoint |-> ep, sent |-> Len(log)]

\* the classifications so far and the one this call made, if it made one
SeenWith(after, outcome, headers, ep, log) ==
    IF after.result.handled
    THEN seen \cup {Seen(outcome.response, after.result.exc, headers, ep, log)}
    ELSE seen

\* the frame of the menus
MenuFrame ==
    /\ UNCHANGED <<called, probe_outcome, history, lfs>>
    /\ UNCHANGED fileVars
    /\ UNCHANGED transferVars

\* main.py:2222-2239, set_endpoint
set_endpoint(text) ==
    /\ IF text = None
       THEN /\ result' = Raised("set_endpoint",
                             PyException("AttributeError",
                                 "'NoneType' object has no attribute 'rstrip'"))
            /\ console' = NoLine
            /\ UNCHANGED <<endpoint, construction>>
       ELSE /\ construction' =
                   [construction EXCEPT !.file.has_endpoint = TRUE,
                                        !.file.endpoint = Str(RStripSlash(text.s))]
            /\ endpoint' = RStripSlash(text.s)
            /\ console' = Line("Endpoint set to " \o RStripSlash(text.s))
            /\ result' = Returned("set_endpoint", NoResponse)
    /\ answer' = text
    /\ UNCHANGED <<session_headers, last_assigned, transport_log, last_outcome,
                   seen, username>>
    /\ MenuFrame

\* main.py:2242-2267, set_token
set_token(token, outcome) ==
    /\ Len(transport_log) < MaxSent
    /\ construction' = [construction EXCEPT !.file.token =
                            IF Truthy(token) THEN token ELSE None]
    /\ last_assigned' = token
    /\ answer' = token
    /\ LET headers == TokenSetter(session_headers, token)
           who == WhoamiUsername([endpoint |-> endpoint,
                                  session_headers |-> headers,
                                  transport_log |-> transport_log], outcome)
           after == who.after
       IN /\ session_headers' = after.session_headers
          /\ transport_log' = after.transport_log
          /\ seen' = SeenWith(after, outcome, headers, endpoint, transport_log)
          /\ username' = IF who.ok THEN who.username ELSE username
          /\ console' = IF who.ok THEN Line("Token saved and verified")
                        ELSE ErrorLine("Invalid token", who.exc)
          /\ result' = Returned("set_token", NoResponse)
    /\ last_outcome' = outcome
    /\ UNCHANGED endpoint
    /\ MenuFrame

\* client.py:156-166, logout
client_logout(sess, outcome) ==
    PlainRequest(sess, "logout", "POST", "/api/auth/logout", outcome)

\* a logout that shows the error of client.logout() and stays logged in
logout_ShowsError(confirm, outcome) ==
    /\ (Truthy(username) /\ Truthy(confirm)) => Len(transport_log) < MaxSent
    /\ IF ~Truthy(username)
       THEN /\ console' = Line("Not logged in")
            /\ answer' = None
            /\ UNCHANGED <<clientVars, last_outcome, seen, username>>
       ELSE IF ~Truthy(confirm)
       THEN /\ console' = NoLine
            /\ answer' = confirm
            /\ UNCHANGED <<clientVars, last_outcome, seen, username>>
       ELSE LET after == client_logout(ClientSession, outcome)
            IN /\ endpoint' = after.endpoint
               /\ session_headers' = after.session_headers
               /\ transport_log' = after.transport_log
               /\ seen' = SeenWith(after, outcome, session_headers, endpoint,
                                   transport_log)
               /\ last_outcome' = outcome
               /\ username' = IF after.result.returned THEN None ELSE username
               /\ console' = IF after.result.returned THEN Line("Logged out")
                             ELSE ErrorLine("Logout failed", after.result.exc)
               /\ answer' = confirm
               /\ UNCHANGED last_assigned
    /\ result' = Returned("logout", NoResponse)
    /\ UNCHANGED construction
    /\ MenuFrame

\* main.py:678-697, logout
logout(confirm, outcome) ==
    /\ (Truthy(username) /\ Truthy(confirm)) => Len(transport_log) < MaxSent
    /\ IF ~Truthy(username)
       THEN /\ console' = Line("Not logged in")
            /\ answer' = None
            /\ UNCHANGED <<clientVars, last_outcome, seen, username>>
       ELSE IF ~Truthy(confirm)
       THEN /\ console' = NoLine
            /\ answer' = confirm
            /\ UNCHANGED <<clientVars, last_outcome, seen, username>>
       ELSE LET after == client_logout(ClientSession, outcome)
            IN /\ endpoint' = after.endpoint
               /\ session_headers' = after.session_headers
               /\ transport_log' = after.transport_log
               /\ seen' = SeenWith(after, outcome, session_headers, endpoint,
                                   transport_log)
               /\ last_outcome' = outcome
               /\ username' = None
               /\ console' = Line("Logged out")
               /\ answer' = confirm
               /\ UNCHANGED last_assigned
    /\ result' = Returned("logout", NoResponse)
    /\ UNCHANGED construction
    /\ MenuFrame

\* state.client._request(method, path, **kwargs), as the operations the
\* menus call issue it
MenuRequest(call, outcome) ==
    /\ Len(transport_log) < MaxSent
    /\ LET after == _request(endpoint, session_headers, transport_log,
                             call.method, call.path, call.headers, outcome)
       IN /\ endpoint' = after.endpoint
          /\ session_headers' = after.session_headers
          /\ transport_log' = after.transport_log
          /\ result' = after.result
          /\ seen' = SeenWith(after, outcome, session_headers, endpoint,
                              transport_log)
    /\ last_outcome' = outcome
    /\ UNCHANGED <<last_assigned, construction>>
    /\ UNCHANGED menuVars
    /\ MenuFrame

NextInteractive ==
    \/ \E text \in EndpointTexts : set_endpoint(text)
    \/ \E token \in TokenTexts, outcome \in MenuOutcomes : set_token(token, outcome)
    \/ \E call \in Calls, outcome \in MenuOutcomes : MenuRequest(call, outcome)

SpecInteractive == InitInteractive /\ [][NextInteractive]_vars

\* the user menu of the interactive mode: a token is set and verified, the
\* user logs out
NextSession ==
    \/ \E token \in TokenTexts, outcome \in SessionOutcomes :
          set_token(token, outcome)
    \/ \E confirm \in Confirmations, outcome \in SessionOutcomes :
          logout(confirm, outcome)

SpecSession == InitInteractive /\ [][NextSession]_vars

(***************************************************************************)
(* config.py: the operation history.                                       *)
(***************************************************************************)
\* config.py:107, the length from which add_to_history trims
HistoryMax == 50
\* config.py:108, the entries it keeps before it appends
HistoryKept == 49

\* the timestamp after which no further entry is added
MaxStamp == 55

\* an entry: the operation and the timestamp (the clock is the number of
\* entries ever added)
Entry(operation, timestamp) == [operation |-> operation, timestamp |-> timestamp]

\* seq[start:]
SliceFrom(seq, start) ==
    LET from == IF start < 0
                THEN (IF Len(seq) + start < 0 THEN 0 ELSE Len(seq) + start)
                ELSE (IF start > Len(seq) THEN Len(seq) ELSE start)
    IN SubSeq(seq, from + 1, Len(seq))

\* reversed(seq)
Reversed(seq) == [i \in 1..Len(seq) |-> seq[Len(seq) + 1 - i]]

\* the timestamp of the next entry
Now == IF history.items = <<>> THEN 1
       ELSE history.items[Len(history.items)].timestamp + 1

\* add_to_history trimming to one entry more
add_to_history_KeepsOneMore(stored, operation, timestamp) ==
    LET list == IF stored.t = "list" THEN stored.items ELSE <<>>
        kept == IF Len(list) >= HistoryMax
                THEN SliceFrom(list, 0 - HistoryMax)
                ELSE list
    IN StoredHistory("list", Append(kept, Entry(operation, timestamp)))

\* config.py:93-118: the value stored under "history" afterwards
add_to_history(stored, operation, timestamp) ==
    LET list == IF stored.t = "list" THEN stored.items ELSE <<>>
        kept == IF Len(list) >= HistoryMax
                THEN SliceFrom(list, 0 - HistoryKept)
                ELSE list
    IN StoredHistory("list", Append(kept, Entry(operation, timestamp)))

\* config.py:120-134
get_history(stored, limit) ==
    IF stored.t # "list" THEN <<>>
    ELSE Reversed(SliceFrom(stored.items, 0 - limit))

\* the histories a config file holds when the program starts: none, lists
\* around the length at which the program trims, and values that are no list
StoredLengths == {0, 1, 2, 49, 50, 51, 53}
StoredHistories ==
    {StoredHistory("list", [i \in 1..n |-> Entry("login", i)]) : n \in StoredLengths}
    \cup {NoHistory, StoredHistory("str", <<>>), StoredHistory("dict", <<>>)}

\* the limits get_history is called with (cli.py:1807 passes --limit)
Limits == {0 - 1, 0, 1, 2, 10, 50, 60}

\* what get_history returned, with the limit it was called with
Recent(items, limit) == [items |-> items, limit |-> limit]

InitHistory ==
    /\ endpoint = DefaultEndpoint
    /\ session_headers = DefaultHeaders
    /\ last_assigned = None
    /\ transport_log = <<>>
    /\ last_outcome = NoOutcome
    /\ result = NoResult
    /\ construction = NoConstruction
    /\ TransferIdle
    /\ called = NoCall
    /\ probe_outcome = NoOutcome
    /\ seen = {}
    /\ history \in StoredHistories
    /\ lfs = NoLfs
    /\ username = None
    /\ console = [text |-> "", exc |-> NoException]
    /\ answer = None
    /\ FilesIdle

\* the frame of the operations on the history
HistoryFrame ==
    /\ UNCHANGED <<clientVars, last_outcome, called, probe_outcome, seen,
                   construction, lfs>>
    /\ UNCHANGED transferVars
    /\ UNCHANGED menuVars
    /\ UNCHANGED fileVars

\* config.add_to_history(operation)
AddToHistory(operation) ==
    /\ Now <= MaxStamp
    /\ history' = add_to_history(history, operation, Now)
    /\ result' = Returned("add_to_history", NoResponse)
    /\ HistoryFrame

\* config.get_history(limit)
GetHistory(limit) ==
    /\ result' = Returned("get_history", Recent(get_history(history, limit), limit))
    /\ UNCHANGED history
    /\ HistoryFrame

NextHistory ==
    \/ AddToHistory("upload")
    \/ \E limit \in Limits : GetHistory(limit)

SpecHistory == InitHistory /\ [][NextHistory]_vars

(***************************************************************************)
(* The construction of a client from every combination of its sources.     *)
(***************************************************************************)
\* the endpoint and token arguments: not given, empty, given
EndpointArgs == {None, Str(""), Str("http://arg.example/")}
TokenArgs == {None, Str(""), Str("tokA")}

\* the environment: a variable is unset (None), empty or set
Environments ==
    {[HF_ENDPOINT |-> e, HF_TOKEN |-> t] :
        e \in {None, Str(""), Str("http://env.example/")},
        t \in {None, Str(""), Str("tokE")}}

\* the config file: without the key "endpoint", or with an endpoint as the
\* setter of Config.endpoint stores it (config.py:183-186); without a token
\* or with one
ConfigFiles ==
    {[has_endpoint |-> FALSE, endpoint |-> None, token |-> t] :
        t \in {None, Str("tokF")}}
    \cup {[has_endpoint |-> TRUE, endpoint |-> e, token |-> t] :
        e \in {Str(""), Str("http://file.example")}, t \in {None, Str("tokF")}}

AllConstructions ==
    {[endpoint_arg |-> e, token_arg |-> t, env |-> env, file |-> file] :
        e \in EndpointArgs, t \in TokenArgs, env \in Environments,
        file \in ConfigFiles}

InitConfig ==
    /\ endpoint = DefaultEndpoint
    /\ session_headers = DefaultHeaders
    /\ last_assigned = None
    /\ transport_log = <<>>
    /\ last_outcome = NoOutcome
    /\ result = NoResult
    /\ construction \in AllConstructions
    /\ TransferIdle
    /\ LaterIdle

\* KohubClient(endpoint=..., token=..., config=Config())
Construct ==
    /\ result.op = ""
    /\ LET client == NewClient(construction.endpoint_arg, construction.token_arg,
                               construction.env, construction.file)
       IN /\ endpoint' = client.endpoint
          /\ session_headers' = client.session_headers
          /\ last_assigned' = client.last_assigned
    /\ result' = Returned("__init__", NoResponse)
    /\ UNCHANGED <<transport_log, last_outcome>>
    /\ UNCHANGED transferVars
    /\ UNCHANGED laterVars

NextConfig == Construct

SpecConfig == InitConfig /\ [][NextConfig]_vars

(***************************************************************************)
(* cli.py: the commands settings repo lfs threshold, versions and suffix,  *)
(* each run in a process of its own.                                       *)
(***************************************************************************)
\* cli.py:1512, the least --threshold
LfsThresholdMin == 1000000
\* cli.py:1559, the least --count
LfsVersionsMin == 2

UsageError(text) == PyException("UsageError", text)
BadParameter(text) == PyException("BadParameter", text)

\* what the body of a command decides before it calls the client: it
\* raises, or it has the value to pass on and the message to print
Refuses(exc) == [raised |-> TRUE, exc |-> exc, value |-> None, message |-> ""]
Passes(value, message) ==
    [raised |-> FALSE, exc |-> NoException, value |-> value, message |-> message]

\* set_lfs_threshold accepting every threshold
ThresholdChoice_NoMinimum(args) ==
    IF args.reset
    THEN Passes(None, "LFS threshold reset to server default for " \o args.repo_id)
    ELSE IF args.value = None
    THEN Refuses(UsageError("Must specify either --threshold or --reset"))
    ELSE Passes(args.value,
                "LFS threshold set to " \o IntToStr(args.value.n)
                    \o " bytes for " \o args.repo_id)

\* cli.py:1506-1517
ThresholdChoice(args) ==
    IF args.reset
    THEN Passes(None, "LFS threshold reset to server default for " \o args.repo_id)
    ELSE IF args.value = None
    THEN Refuses(UsageError("Must specify either --threshold or --reset"))
    ELSE IF args.value.n < LfsThresholdMin
    THEN Refuses(BadParameter("Threshold must be at least 1000000 bytes (1 MB)"))
    ELSE Passes(args.value,
                "LFS threshold set to " \o IntToStr(args.value.n)
                    \o " bytes for " \o args.repo_id)

\* cli.py:1553-1562
VersionsChoice(args) ==
    IF args.reset
    THEN Passes(None,
                "LFS keep versions reset to server default for " \o args.repo_id)
    ELSE IF args.value = None
    THEN Refuses(UsageError("Must specify either --count or --reset"))
    ELSE IF args.value.n < LfsVersionsMin
    THEN Refuses(BadParameter("Keep versions must be at least 2"))
    ELSE Passes(args.value,
                "LFS keep versions set to " \o IntToStr(args.value.n)
                    \o " for " \o args.repo_id)

\* ", ".join(rules)
RECURSIVE JoinRules(_)
JoinRules(rules) ==
    IF rules = <<>> THEN ""
    ELSE IF Len(rules) = 1 THEN rules[1]
    ELSE rules[1] \o ", " \o JoinRules(Tail(rules))

\* a list of suffixes as a Python value
SuffixList(rules) == List_("[" \o JoinRules(rules) \o "]", Len(rules))

\* suffix in rules
InRules(rules, suffix) == \E i \in 1..Len(rules) : rules[i] = suffix

\* cli.py:1630-1636, the loop over add_suffixes: the rules, or the suffix
\* that does not start with "."
RECURSIVE AddSuffixes(_, _)
AddSuffixes(rules, add) ==
    IF add = <<>> THEN [bad |-> "", rules |-> rules]
    ELSE IF ~StartsWith(add[1], ".") THEN [bad |-> add[1], rules |-> rules]
    ELSE AddSuffixes(IF InRules(rules, add[1]) THEN rules
                     ELSE Append(rules, add[1]),
                     Tail(add))

\* rules.remove(suffix): the first occurrence goes
RemoveFirst(rules, suffix) ==
    LET i == CHOOSE k \in 1..Len(rules) :
                 rules[k] = suffix /\ \A j \in 1..(k - 1) : rules[j] # suffix
    IN SubSeq(rules, 1, i - 1) \o SubSeq(rules, i + 1, Len(rules))

\* cli.py:1639-1641, the loop over remove_suffixes
RECURSIVE RemoveSuffixes(_, _)
RemoveSuffixes(rules, remove) ==
    IF remove = <<>> THEN rules
    ELSE RemoveSuffixes(IF InRules(rules, remove[1])
                        THEN RemoveFirst(rules, remove[1]) ELSE rules,
                        Tail(remove))

\* the first of the suffixes that does not start with ".", "" if none
RECURSIVE FirstBad(_)
FirstBad(suffixes) ==
    IF suffixes = <<>> THEN ""
    ELSE IF ~StartsWith(suffixes[1], ".") THEN suffixes[1]
    ELSE FirstBad(Tail(suffixes))

\* the rules a command passes on and its message
PassesRules(rules, message) ==
    [raised |-> FALSE, exc |-> NoException, rules |-> rules, message |-> message]
RefusesRules(exc) ==
    [raised |-> TRUE, exc |-> exc, rules |-> <<>>, message |-> ""]

\* cli.py:1612-1647: new_rules and the message
SuffixChoice(args, current_rules) ==
    IF args.clear
    THEN PassesRules(<<>>, "Cleared all LFS suffix rules for " \o args.repo_id)
    ELSE IF args.set_suffixes # <<>>
    THEN IF FirstBad(args.set_suffixes) # ""
         THEN RefusesRules(BadParameter("Suffix must start with '.', got: "
                                            \o FirstBad(args.set_suffixes)))
         ELSE PassesRules(args.set_suffixes,
                          "Set LFS suffix rules for " \o args.repo_id \o ": "
                              \o JoinRules(args.set_suffixes))
    ELSE IF args.add_suffixes # <<>> \/ args.remove_suffixes # <<>>
    THEN LET added == AddSuffixes(current_rules, args.add_suffixes)
             new_rules == RemoveSuffixes(added.rules, args.remove_suffixes)
         IN IF added.bad # ""
            THEN RefusesRules(BadParameter("Suffix must start with '.', got: "
                                               \o added.bad))
            ELSE PassesRules(new_rules,
                             "Updated LFS suffix rules for " \o args.repo_id
                                 \o ": " \o (IF new_rules # <<>>
                                             THEN JoinRules(new_rules)
                                             ELSE "none"))
    ELSE RefusesRules(UsageError(
             "Must specify one of: --add, --remove, --set, or --clear"))

\* how a command ends: the session of the client, the result, whether
\* update_repo_settings sent its request and with which body, the message
\* printed and the exit status (handle_error exits with 1, cli.py:116)
LfsEnd(sess, r, updated, json, message, status) ==
    [endpoint |-> sess.endpoint, session_headers |-> sess.session_headers,
     transport_log |-> sess.transport_log, result |-> r, updated |-> updated,
     json |-> json, message |-> message, exit_code |-> status]

\* the end of a command that called update_repo_settings
LfsUpdated(command, after, message) ==
    IF after.result.returned
    THEN LfsEnd(after, [after.result EXCEPT !.op = command], after.sent,
                after.json, message, 0)
    ELSE LfsEnd(after, [after.result EXCEPT !.op = command], after.sent,
                after.json, "", 1)

\* cli.py:1480-1526
set_lfs_threshold(sess, args, outcome) ==
    LET choice == ThresholdChoice(args)
    IN IF choice.raised
       THEN LfsEnd(sess, Raised("set_lfs_threshold", choice.exc), FALSE, NoData,
                   "", 1)
       ELSE LfsUpdated("set_lfs_threshold",
                       update_repo_settings(sess, args.repo_id, "model",
                                            choice.value, None, None, outcome),
                       choice.message)

\* cli.py:1529-1571
set_lfs_versions(sess, args, outcome) ==
    LET choice == VersionsChoice(args)
    IN IF choice.raised
       THEN LfsEnd(sess, Raised("set_lfs_versions", choice.exc), FALSE, NoData,
                   "", 1)
       ELSE LfsUpdated("set_lfs_versions",
                       update_repo_settings(sess, args.repo_id, "model",
                                            None, choice.value, None, outcome),
                       choice.message)

\* the settings the hub returns to get_repo_lfs_settings, with these rules
SettingsDelivered(current_rules) ==
    TransportDelivers(
        Response(200,
                 "{\"lfs_suffix_rules\": " \o SuffixList(current_rules).s \o "}",
                 JObject(None, None)))

\* cli.py:1574-1656: got is what the transport does with the request of
\* get_repo_lfs_settings, current_rules the lfs_suffix_rules of its answer
manage_lfs_suffix(sess, args, got, current_rules, outcome) ==
    LET fetched == get_repo_lfs_settings(sess, args.repo_id, "model", got)
        choice == SuffixChoice(args, current_rules)
    IN IF ~fetched.result.returned
       THEN LfsEnd(fetched, [fetched.result EXCEPT !.op = "manage_lfs_suffix"],
                   FALSE, NoData, "", 1)
       ELSE IF fetched.result.value.json.t # "dict"
       THEN LfsEnd(fetched,
                   Raised("manage_lfs_suffix",
                          PyException("AttributeError",
                                      "object has no attribute 'get'")),
                   FALSE, NoData, "", 1)
       ELSE IF choice.raised
       THEN LfsEnd(fetched, Raised("manage_lfs_suffix", choice.exc), FALSE,
                   NoData, "", 1)
       ELSE LfsUpdated("manage_lfs_suffix",
                       update_repo_settings(
                           [endpoint |-> fetched.endpoint,
                            session_headers |-> fetched.session_headers,
                            transport_log |-> fetched.transport_log],
                           args.repo_id, "model", None, None,
                           IF choice.rules # <<>> THEN SuffixList(choice.rules)
                           ELSE None,
                           outcome),
                       choice.message)

\* the command lines
ThresholdArgs ==
    {LfsArgs("threshold", repo_id, value, reset, <<>>, <<>>, <<>>, FALSE) :
        repo_id \in RepoIds,
        value \in {None, Int_(0 - 1), Int_(0), Int_(999999), Int_(1000000),
                   Int_(5000000)},
        reset \in BOOLEAN}
VersionsArgs ==
    {LfsArgs("versions", repo_id, value, reset, <<>>, <<>>, <<>>, FALSE) :
        repo_id \in RepoIds,
        value \in {None, Int_(0 - 1), Int_(0), Int_(1), Int_(2), Int_(10)},
        reset \in BOOLEAN}
SuffixArgs ==
    {LfsArgs("suffix", "alice/m", None, FALSE, add, remove, set, clear) :
        add \in {<<>>, <<".bin">>, <<"bin">>},
        remove \in {<<>>, <<".bin">>, <<".gguf">>},
        set \in {<<>>, <<".gguf">>, <<".gguf", "bin">>},
        clear \in BOOLEAN}

\* the suffix rules a repository has
CurrentRules == {<<>>, <<".bin">>, <<".bin", ".gguf">>}

\* the answers to get_repo_lfs_settings that are no settings: failures
\* and a body that is no object
SettingsFailures ==
    {o \in TransferOutcomes : o.raised \/ ~ResponseOk(o.response)}
    \cup {TransportDelivers(Response(200, "[]", JOther("list")))}

\* what the hub may answer to get_repo_lfs_settings
SettingsOutcomes ==
    SettingsFailures \cup {SettingsDelivered(rules) : rules \in CurrentRules}

\* the command ends: the client, the command's record and the exit status
LfsDone(args, end) ==
    /\ endpoint' = end.endpoint
    /\ session_headers' = end.session_headers
    /\ transport_log' = end.transport_log
    /\ result' = end.result
    /\ lfs' = [args |-> args, updated |-> end.updated, json |-> end.json,
               message |-> end.message]
    /\ exit_code' = end.exit_code
    /\ UNCHANGED <<last_assigned, tpc, targs, detected_repo_type, tops, tfiles,
                   called, probe_outcome, seen, construction, history>>
    /\ UNCHANGED menuVars
    /\ UNCHANGED fileVars

\* kohub-cli settings repo lfs threshold REPO_ID [--threshold N] [--reset]
SetLfsThreshold(args, outcome) ==
    /\ exit_code = 0 - 1
    /\ LET end == set_lfs_threshold(ClientSession, args, outcome)
       IN /\ LfsDone(args, end)
          /\ last_outcome' = IF end.updated THEN outcome ELSE last_outcome

\* kohub-cli settings repo lfs versions REPO_ID [--count N] [--reset]
SetLfsVersions(args, outcome) ==
    /\ exit_code = 0 - 1
    /\ LET end == set_lfs_versions(ClientSession, args, outcome)
       IN /\ LfsDone(args, end)
          /\ last_outcome' = IF end.updated THEN outcome ELSE last_outcome

\* kohub-cli settings repo lfs suffix REPO_ID [--add S] [--remove S]
\* [--set S] [--clear]
ManageLfsSuffix(args, got, current_rules, outcome) ==
    /\ exit_code = 0 - 1
    /\ got \in SettingsFailures \cup {SettingsDelivered(current_rules)}
    /\ LET end == manage_lfs_suffix(ClientSession, args, got, current_rules,
                                    outcome)
       IN /\ LfsDone(args, end)
          /\ last_outcome' = IF end.updated THEN outcome ELSE got

NextLfs ==
    \/ \E args \in ThresholdArgs, outcome \in TransferOutcomes :
          SetLfsThreshold(args, outcome)
    \/ \E args \in VersionsArgs, outcome \in TransferOutcomes :
          SetLfsVersions(args, outcome)
    \/ \E args \in SuffixArgs, got \in SettingsOutcomes,
          current_rules \in CurrentRules, outcome \in TransferOutcomes :
          ManageLfsSuffix(args, got, current_rules, outcome)

SpecLfs == Init /\ [][NextLfs]_vars

(***************************************************************************)
(* client.py: the operations on files and on the repositories of a         *)
(* namespace, each called on the client of the command line.               *)
(***************************************************************************)
\* the 64 characters of base64, in the order of their values
B64Alphabet ==
    "ABCDEFGHIJKLMNOPQRSTUVWXYZabcdefghijklmnopqrstuvwxyz0123456789+/"
B64Char(n) == SubSeq(B64Alphabet, n + 1, n + 1)

\* client.py:1200, base64.b64encode(content).decode("utf-8") of a sequence
\* of bytes
RECURSIVE b64encode(_)
b64encode(bytes) ==
    IF Len(bytes) = 0 THEN ""
    ELSE IF Len(bytes) = 1
    THEN B64Char(bytes[1] \div 4) \o B64Char((bytes[1] % 4) * 16) \o "=="
    ELSE IF Len(bytes) = 2
    THEN B64Char(bytes[1] \div 4)
            \o B64Char((bytes[1] % 4) * 16 + bytes[2] \div 16)
            \o B64Char((bytes[2] % 16) * 4) \o "="
    ELSE B64Char(bytes[1] \div 4)
            \o B64Char((bytes[1] % 4) * 16 + bytes[2] \div 16)
            \o B64Char((bytes[2] % 16) * 4 + bytes[3] \div 64)
            \o B64Char(bytes[3] % 64)
            \o b64encode(SubSeq(bytes, 4, Len(bytes)))

\* json.dumps of a str of ASCII characters: the quotation mark, the
\* backslash and the newline are escaped
RECURSIVE EscapeJson(_)
EscapeJson(str) ==
    IF Len(str) = 0 THEN ""
    ELSE LET c == SubSeq(str, 1, 1)
         IN (CASE c = "\"" -> "\\\""
               [] c = "\\" -> "\\\\"
               [] c = "\n" -> "\\n"
               [] OTHER -> c)
            \o EscapeJson(SubSeq(str, 2, Len(str)))
DumpsStr(str) == "\"" \o EscapeJson(str) \o "\""

\* a commit payload whose header carries the message as it is
CommitPayload_RawMessage(repo_path, content, commit_message) ==
    LET message == IF Truthy(commit_message) THEN commit_message.s
                   ELSE "Upload " \o repo_path
    IN "{\"key\": \"header\", \"value\": {\"summary\": \"" \o message
           \o "\", \"description\": \"\"}}"
       \o "\n"
       \o "{\"key\": \"file\", \"value\": {\"path\": " \o DumpsStr(repo_path)
           \o ", \"content\": " \o DumpsStr(b64encode(content))
           \o ", \"encoding\": \"base64\"}}"

\* client.py:1203-1229, ndjson_payload
CommitPayload(repo_path, content, commit_message) ==
    LET message == IF Truthy(commit_message) THEN commit_message.s
                   ELSE "Upload " \o repo_path
    IN "{\"key\": \"header\", \"value\": {\"summary\": " \o DumpsStr(message)
           \o ", \"description\": \"\"}}"
       \o "\n"
       \o "{\"key\": \"file\", \"value\": {\"path\": " \o DumpsStr(repo_path)
           \o ", \"content\": " \o DumpsStr(b64encode(content))
           \o ", \"encoding\": \"base64\"}}"

\* a repository as the hub lists it: repo_type is None when the entry has
\* no such key
RepoEntry(id, repo_type) == [id |-> id, repo_type |-> repo_type]
\* the answer of /api/users/{namespace}/repos: a dict of lists by type
JRepos(models, datasets, spaces) ==
    [ok |-> TRUE, t |-> "dict", detail |-> None, message |-> None,
     models |-> models, datasets |-> datasets, spaces |-> spaces]
\* the answer of /api/{repo_type}s: a list
JList(entries) ==
    [ok |-> TRUE, t |-> "list", detail |-> None, message |-> None,
     entries |-> entries]

\* data.get(key, []) on a dict
ReposOf(data, key) == IF key \in DOMAIN data THEN data[key] ELSE <<>>
\* the entries of what list_repos returned (iterating an empty dict gives
\* nothing)
ListOf(json) == IF "entries" \in DOMAIN json THEN json.entries ELSE <<>>
\* for repo in repos: repo["repo_type"] = rtype
Tagged(repos, rtype) ==
    [i \in 1..Len(repos) |-> [repos[i] EXCEPT !.repo_type = Str(rtype)]]

\* client.py:582-606, list_repos(repo_type, author, limit)
list_repos(sess, repo_type, author, limit, outcome) ==
    PlainRequest(sess, "list_repos", "GET",
                 "/api/" \o repo_type \o "s?limit=" \o IntToStr(limit)
                     \o "&author=" \o author,
                 outcome)

\* the session an operation leaves
SessionAfter(after) ==
    [endpoint |-> after.endpoint, session_headers |-> after.session_headers,
     transport_log |-> after.transport_log]

\* how list_namespace_repos ends: the session, the result, the list returned
\* and what the transport did with its last request
Listed(after, ends, entries, last) ==
    [endpoint |-> after.endpoint, session_headers |-> after.session_headers,
     transport_log |-> after.transport_log, result |-> ends,
     listed |-> entries, last |-> last]

RepoTypes == <<"model", "dataset", "space">>

\* client.py:658-663: list_repos for each type in turn, from the type at
\* position k on
RECURSIVE ListEachType(_, _, _, _, _, _)
ListEachType(sess, namespace, k, fallback, all, last) ==
    IF k > Len(RepoTypes)
    THEN Listed(sess, Returned("list_namespace_repos", NoResponse), all, last)
    ELSE LET rtype == RepoTypes[k]
             after == list_repos(sess, rtype, namespace, 1000, fallback[rtype])
         IN IF ~after.result.returned
            THEN Listed(after, [after.result EXCEPT !.op = "list_namespace_repos"],
                        <<>>, fallback[rtype])
            ELSE ListEachType(SessionAfter(after), namespace, k + 1, fallback,
                              all \o Tagged(ListOf(after.result.value.json), rtype),
                              fallback[rtype])

\* client.py:608-665, list_namespace_repos(namespace, repo_type)
list_namespace_repos(sess, namespace, repo_type, primary, fallback) ==
    LET first == PlainRequest(sess, "list_namespace_repos", "GET",
                              "/api/users/" \o namespace \o "/repos", primary)
        data == first.result.value.json
    IN IF first.result.returned /\ data.t = "dict"
       THEN IF Truthy(repo_type)
            THEN Listed(first, first.result,
                        Tagged(ReposOf(data, repo_type.s \o "s"), repo_type.s),
                        primary)
            ELSE Listed(first, first.result,
                        Tagged(ReposOf(data, "models"), "model")
                            \o Tagged(ReposOf(data, "datasets"), "dataset")
                            \o Tagged(ReposOf(data, "spaces"), "space"),
                        primary)
       ELSE IF Truthy(repo_type)
            THEN LET after == list_repos(SessionAfter(first), repo_type.s,
                                         namespace, 1000, fallback[repo_type.s])
                 IN Listed(after,
                           [after.result EXCEPT !.op = "list_namespace_repos"],
                           IF after.result.returned
                           THEN ListOf(after.result.value.json) ELSE <<>>,
                           fallback[repo_type.s])
            ELSE ListEachType(SessionAfter(first), namespace, 1, fallback, <<>>,
                              primary)

\* the repositories of the namespace, as the hub lists them
HubModel == RepoEntry("alice/m", None)
HubDataset == RepoEntry("alice/d", None)
\* what the hub answers to /api/users/{namespace}/repos
NamespaceOutcomes ==
    { TransportRaises("Connection refused"),
      TransportDelivers(Response(404, "{\"detail\": \"Not found\"}",
                                 JObject(Str("Not found"), None))),
      TransportDelivers(Response(200, "{\"models\": [..], \"datasets\": [..]}",
                                 JRepos(<<HubModel>>, <<HubDataset>>, <<>>))),
      TransportDelivers(Response(200, "{}", JObject(None, None))) }
\* what the hub answers to /api/{repo_type}s
ListingOutcomes ==
    [model : { TransportDelivers(Response(200, "[..]", JList(<<HubModel>>))),
               TransportDelivers(Response(500, "", ParseFail)) },
     dataset : { TransportDelivers(Response(200, "[..]", JList(<<HubDataset>>))),
                 TransportRaises("Connection refused") },
     space : { TransportDelivers(Response(200, "[]", JList(<<>>))),
               TransportDelivers(Response(404, "{\"detail\": \"Not found\"}",
                                          JObject(Str("Not found"), None))) }]
\* the repo_type filters
TypeFilters == {None, Str("model"), Str("dataset")}

\* the paths in the repository
RepoPaths == {"a.txt", "dir/b.bin"}
\* the uploads: contents of 0 to 4 bytes, and commit messages that are
\* absent, empty, plain, of two lines, with quotation marks and a backslash
UploadCase(content, repo_path, commit_message) ==
    [content |-> content, repo_path |-> repo_path,
     commit_message |-> commit_message]
UploadCases ==
    { UploadCase(<<>>, "a.txt", None),
      UploadCase(<<77>>, "dir/b.bin", Str("")),
      UploadCase(<<77, 97>>, "a.txt", Str("fix")),
      UploadCase(<<77, 97, 110>>, "dir/b.bin", Str("one\ntwo")),
      UploadCase(<<255, 0, 16, 200>>, "a.txt", Str("say \"hi\" \\ bye")),
      UploadCase(<<77, 97, 110>>, "a.txt", None) }
\* what the hub answers to the operations on files
FileOutcomes ==
    { TransportRaises("Connection refused"),
      TransportDelivers(Response(200, "{}", JObject(None, None))),
      TransportDelivers(Response(404, "{\"detail\": \"Not found\"}",
                                 JObject(Str("Not found"), None))),
      TransportDelivers(Response(400, "{\"detail\": [\"bad\"]}",
                                 JObject(List_("[\"bad\"]", 1), None))) }
\* the file at local_path before download_file is called
LocalFiles == {NoFile, FileWith("old")}

InitFiles ==
    \E c \in Constructions :
        LET client == NewClient(c.endpoint_arg, c.token_arg, c.env, c.file)
        IN /\ endpoint = client.endpoint
           /\ session_headers = client.session_headers
           /\ last_assigned = client.last_assigned
           /\ transport_log = <<>>
           /\ last_outcome = NoOutcome
           /\ result = NoResult
           /\ construction = c
           /\ TransferIdle
           /\ called = NoCall
           /\ probe_outcome = NoOutcome
           /\ seen = {}
           /\ history = NoHistory
           /\ lfs = NoLfs
           /\ username = None
           /\ console = [text |-> "", exc |-> NoException]
           /\ answer = None
           /\ upload = NoUpload
           /\ local_file \in LocalFiles
           /\ listed = <<>>

\* the guard and the frame of the operations on files
FileCall(op, repo_id) ==
    /\ Len(transport_log) < MaxCalls
    /\ called' = [op |-> op, repo_id |-> repo_id, sent |-> Len(transport_log)]
    /\ UNCHANGED <<last_assigned, probe_outcome, seen, construction, history, lfs>>
    /\ UNCHANGED transferVars
    /\ UNCHANGED menuVars

\* client.upload_file(repo_id, local_path, repo_path, commit_message=...)
UploadFile(repo_id, local_exists, content, repo_path, commit_message, outcome) ==
    /\ FileCall("upload_file", repo_id)
    /\ LET after == upload_file(ClientSession, local_exists, repo_id, repo_path,
                                "model", outcome)
           sent == Len(after.transport_log) > Len(transport_log)
       IN /\ Leaves(after)
          /\ last_outcome' = IF sent THEN outcome ELSE last_outcome
          /\ upload' = [local_exists |-> local_exists,
                        content |-> IF local_exists THEN content ELSE <<>>,
                        repo_path |-> repo_path,
                        commit_message |-> commit_message,
                        payload |-> IF sent
                                    THEN Str(CommitPayload(repo_path, content,
                                                           commit_message))
                                    ELSE None]
    /\ UNCHANGED <<local_file, listed>>

\* client.download_file(repo_id, repo_path, local_path): the file at
\* local_path is opened with "wb" and response.content is written to it
DownloadFile(repo_id, repo_path, outcome) ==
    /\ FileCall("download_file", repo_id)
    /\ LET after == download_file(ClientSession, repo_id, repo_path, "model",
                                  outcome)
           sent == Len(after.transport_log) > Len(transport_log)
       IN /\ endpoint' = after.endpoint
          /\ session_headers' = after.session_headers
          /\ transport_log' = after.transport_log
          /\ result' = after.result
          /\ last_outcome' = IF sent THEN outcome ELSE last_outcome
          /\ local_file' = IF after.wrote THEN FileWith(outcome.response.text)
                           ELSE local_file
    /\ UNCHANGED <<upload, listed>>

\* client.list_namespace_repos(namespace, repo_type)
ListNamespaceRepos(repo_type, primary, fallback) ==
    /\ FileCall("list_namespace_repos", "")
    /\ LET after == list_namespace_repos(ClientSession, "alice", repo_type,
                                         primary, fallback)
       IN /\ endpoint' = after.endpoint
          /\ session_headers' = after.session_headers
          /\ transport_log' = after.transport_log
          /\ result' = after.result
          /\ last_outcome' = after.last
          /\ listed' = after.listed
    /\ UNCHANGED <<upload, local_file>>

NextFiles ==
    \/ \E repo_type \in TypeFilters, primary \in NamespaceOutcomes,
          fallback \in ListingOutcomes :
          ListNamespaceRepos(repo_type, primary, fallback)
    \/ \E repo_id \in RepoIds, repo_path \in RepoPaths, outcome \in FileOutcomes :
          DownloadFile(repo_id, repo_path, outcome)
    \/ \E repo_id \in RepoIds, local_exists \in BOOLEAN, case \in UploadCases,
          outcome \in FileOutcomes :
          UploadFile(repo_id, local_exists, case.content, case.repo_path,
                     case.commit_message, outcome)

SpecFiles == InitFiles /\ [][NextFiles]_vars


(***************************************************************************)
(* Properties of the classifier (SpecErrors).                              *)
(***************************************************************************)
\* the response and the error of the most recent handle_response_error
ClassifiedNow == result.op = "handle_response_error"
TheResponse == last_outcome.response
TheError == result.exc

\* C1: handle_response_error maps 401 to AuthenticationError, 403 to
\* AuthorizationError, 404 to NotFoundError, every status >= 500 to
\* ServerError and every other status except 400 to the base KohubError, and
\* the error's status_code is the status of the response.
C1_StatusMapping ==
    (ClassifiedNow /\ TheResponse.status_code # 400) =>
        LET status == TheResponse.status_code
        IN /\ ~result.returned
           /\ TheError.status_code = Int_(status)
           /\ (status = 401) => TheError.kind = "AuthenticationError"
           /\ (status = 403) => TheError.kind = "AuthorizationError"
           /\ (status = 404) => TheError.kind = "NotFoundError"
           /\ (status >= 500) => TheError.kind = "ServerError"
           /\ (status < 500 /\ status \notin {401, 403, 404}) =>
                  TheError.kind = "KohubError"

\* a status-500 response has been classified as ServerError with status 500
C1_Witness ==
    /\ ClassifiedNow
    /\ TheResponse.status_code = 500
    /\ TheError.kind = "ServerError"
    /\ TheError.status_code = Int_(500)

\* a message that is a str and holds "exists" in any case
SaysExists(message) ==
    message.t = "str" /\ Contains(Lower(message.s), "exists")

\* C2: for a status-400 response handle_response_error raises
\* AlreadyExistsError if and only if the extracted message contains "exists"
\* in any case, and ValidationError otherwise; the error carries the
\* extracted message unchanged and status_code 400.
C2_ExistsHeuristic ==
    (ClassifiedNow /\ TheResponse.status_code = 400) =>
        /\ ~result.returned
        /\ TheError.kind = IF SaysExists(ExtractMessage(TheResponse))
                           THEN "AlreadyExistsError"
                           ELSE "ValidationError"
        /\ TheError.message = ExtractMessage(TheResponse)
        /\ TheError.status_code = Int_(400)

\* C3: handle_response_error ends, for every status and body, by raising an
\* error of the KohubError taxonomy; no other exception escapes.
C3_ClassificationTotal ==
    ClassifiedNow => (~result.returned /\ TheError.kind \in KohubKinds)

\* C4: the message of a classified error is the detail field of the JSON
\* body, else its message field, the raw text when the body is not JSON, and
\* "HTTP {status}" when that text is empty.
C4_MessageOrder ==
    (ClassifiedNow /\ TheError.kind \in KohubKinds) =>
        LET data == TheResponse.json
            status == TheResponse.status_code
        IN /\ (data.ok /\ data.t = "dict" /\ Truthy(data.detail)) =>
                  TheError.message = data.detail
           /\ (data.ok /\ data.t = "dict" /\ ~Truthy(data.detail)
                 /\ Truthy(data.message)) =>
                  TheError.message = data.message
           /\ (~data.ok /\ TheResponse.text # "") =>
                  TheError.message = Str(TheResponse.text)
           /\ (~data.ok /\ TheResponse.text = "") =>
                  TheError.message = Str("HTTP " \o IntToStr(status))
           /\ (status = 500 /\ ~data.ok) =>
                  /\ TheError.kind = "ServerError"
                  /\ TheError.message.s \in {TheResponse.text, "HTTP 500"}

\* a status-500 response with an empty body has become ServerError "HTTP 500"
C4_Witness ==
    /\ ClassifiedNow
    /\ TheResponse.status_code = 500
    /\ TheResponse.text = ""
    /\ TheError.kind = "ServerError"
    /\ TheError.message = Str("HTTP 500")

(***************************************************************************)
(* Properties of _request and of the session (Spec).                       *)
(***************************************************************************)
\* the most recent operation was a call of _request
RequestedNow == result.op = "_request" /\ Len(transport_log) > 0

\* the Authorization headers among the headers of a request
AuthHeaders(headers) == {h \in headers : h[1] = "Authorization"}

\* C6: when the transport raises before a response is received, _request
\* raises NetworkError with the description of the exception in its message
\* and status_code None, and handle_response_error is not called.
C6_TransportFailure ==
    (RequestedNow /\ last_outcome.raised) =>
        /\ ~result.returned
        /\ result.exc.kind = "NetworkError"
        /\ Contains(result.exc.message.s, last_outcome.description)
        /\ result.exc.status_code = None
        /\ ~result.handled

\* a request ended in NetworkError after the transport reported a timeout
C6_Witness ==
    /\ RequestedNow
    /\ last_outcome.raised
    /\ last_outcome.description = "Read timed out"
    /\ result.exc.kind = "NetworkError"

\* C7: a request carries Authorization "Bearer <t>" exactly when the most
\* recent token assignment was a non-empty t, no Authorization header when
\* it was None or "" or no token was configured, and never an empty or
\* malformed one, also when the call passes headers of its own.
C7_Authorization ==
    /\ RequestedNow =>
           LET sent == transport_log[Len(transport_log)].headers
           IN IF last_assigned.t = "str" /\ last_assigned.s # ""
              THEN AuthHeaders(sent) =
                       {<<"Authorization", "Bearer " \o last_assigned.s>>}
              ELSE AuthHeaders(sent) = {}
    /\ \A i \in 1..Len(transport_log) :
           \A h \in AuthHeaders(transport_log[i].headers) :
               /\ StartsWith(h[2], "Bearer ")
               /\ Len(h[2]) > Len("Bearer ")
               /\ h[2] # "Bearer None"

\* a token was set and then cleared: the first request carried the token,
\* the second, which passes its own Content-Type, carries none
C7_Witness ==
    /\ RequestedNow
    /\ Len(transport_log) = 2
    /\ AuthHeaders(transport_log[1].headers) = {<<"Authorization", "Bearer tokA">>}
    /\ last_assigned = Str("")
    /\ AuthHeaders(transport_log[2].headers) = {}
    /\ <<"Content-Type", "application/x-ndjson">> \in transport_log[2].headers

\* C8: a call of _request returns the response unmodified when its status
\* is below 400, raises one typed error of the classifier when the status is
\* 400 or above, and raises NetworkError when the transport failed.
C8_ThreeOutcomes ==
    RequestedNow =>
        IF last_outcome.raised
        THEN ~result.returned /\ result.exc.kind = "NetworkError"
        ELSE IF last_outcome.response.status_code < 400
             THEN /\ result.returned
                  /\ result.value = last_outcome.response
                  /\ result.exc = NoException
             ELSE /\ ~result.returned
                  /\ result.exc.kind \in KohubKinds \ {"NetworkError"}

\* C9: one call of _request puts exactly one request on the wire, whatever
\* its outcome.
C9_NoRetries ==
    [][result'.op = "_request" =>
          /\ Len(transport_log') = Len(transport_log) + 1
          /\ SubSeq(transport_log', 1, Len(transport_log)) = transport_log]_vars

\* two calls have failed, one on the transport and one on the status, and
\* two requests are on the wire
C9_Witness ==
    /\ RequestedNow
    /\ ~result.returned
    /\ Len(transport_log) = 2
    /\ \/ last_outcome.raised
       \/ last_outcome.response.status_code = 500

\* the configured bearer token
Token == TokenGetter(session_headers)

\* C10: a call of _request leaves the endpoint and the bearer token as they
\* were; the token changes only through the token setter.
C10_SessionFrame ==
    /\ [][result'.op = "_request" => (endpoint' = endpoint /\ Token' = Token)]_vars
    /\ [][Token' # Token => result'.op = "token.setter"]_vars

\* a request was refused with 401 and the token is still configured
C10_Witness ==
    /\ RequestedNow
    /\ ~last_outcome.raised
    /\ last_outcome.response.status_code = 401
    /\ result.exc.kind = "AuthenticationError"
    /\ Token = Str("tokA")

(***************************************************************************)
(* Properties of the errors the commands raise (SpecTransfer).             *)
(***************************************************************************)
\* C5: every error of the KohubError taxonomy that the program raises,
\* other than NetworkError, carries a status_code that is not None, the
\* typed errors that the transfer command constructs included.
C5_StatusCodeCarried ==
    (~result.returned /\ result.exc.kind \in KohubKinds \ {"NetworkError"}) =>
        result.exc.status_code # None

(***************************************************************************)
(* Properties of the operations of the client (SpecOps).                   *)
(***************************************************************************)
\* what the transport did with the requests of the operation just called
MetOutcomes ==
    (IF called.op # "" /\ Len(transport_log) > called.sent
     THEN {last_outcome} ELSE {})
    \cup (IF called.op = "health_check" THEN {probe_outcome} ELSE {})

\* C11: every operation of the client that contacts the hub has the error
\* mapping of _request: when the hub answers one of its requests with a
\* status >= 400 the operation raises an error of the KohubError taxonomy,
\* and when the transport fails it raises NetworkError.
C11_UniformErrorMapping ==
    \A o \in MetOutcomes :
        /\ o.raised =>
              (~result.returned /\ result.exc.kind = "NetworkError")
        /\ (~o.raised /\ o.response.status_code >= 400) =>
              (~result.returned /\ result.exc.kind \in KohubKinds)

\* C14: when health_check cannot connect to the server, that is when the
\* transport fails on its request to /api/version, health_check raises
\* NetworkError.
C14_HealthCheckRaises ==
    (called.op = "health_check" /\ probe_outcome.raised) =>
        (~result.returned /\ result.exc.kind = "NetworkError")

\* the operations documented as taking a repo_id "namespace/name"
DocumentedOps ==
    {"repo_info", "list_repo_tree", "squash_repo", "update_repo_settings",
     "get_repo_lfs_settings", "create_branch", "delete_branch", "create_tag",
     "delete_tag", "list_commits", "get_commit_detail", "get_commit_diff",
     "upload_file", "download_file", "delete_repo", "move_repo"}

\* the operation just called raised before it sent anything
RejectedUnsent ==
    /\ ~result.returned
    /\ result.op = called.op
    /\ Len(transport_log) = called.sent

\* C18 as stated: each of the sixteen operations documented as taking a
\* repo_id "namespace/name", delete_repo and move_repo among them, raises an
\* error before any HTTP request when the repo_id contains no "/".
C18_AllReject ==
    (called.op \in DocumentedOps /\ ~Contains(called.repo_id, "/")) =>
        RejectedUnsent

\* the local file of upload_file is missing
MissingFile == PyException("FileNotFoundError", "File not found")

\* C18: each of the fourteen operations repo_info, list_repo_tree,
\* squash_repo, update_repo_settings, get_repo_lfs_settings, create_branch,
\* delete_branch, create_tag, delete_tag, list_commits, get_commit_detail,
\* get_commit_diff, upload_file and download_file raises an error before
\* any HTTP request when the repo_id contains no "/": ValueError, or for
\* upload_file FileNotFoundError when the local file is missing.
\* delete_repo and move_repo send their request with such a repo_id.
C18_CheckedOpsReject ==
    /\ (called.op \in DocumentedOps \ {"delete_repo", "move_repo"}
           /\ ~Contains(called.repo_id, "/")) =>
          /\ RejectedUnsent
          /\ \/ result.exc = InvalidRepoId
             \/ called.op = "upload_file" /\ result.exc = MissingFile
    /\ (called.op \in {"delete_repo", "move_repo"}
           /\ ~Contains(called.repo_id, "/")) =>
          (Len(transport_log) = called.sent + 1 /\ result.op = called.op)

\* squash_repo was called with the repo_id "m" and raised ValueError with
\* nothing sent
C18_Witness ==
    /\ called = [op |-> "squash_repo", repo_id |-> "m", sent |-> 0]
    /\ result.exc = InvalidRepoId
    /\ transport_log = <<>>

MenuPaths ==
    {call.path : call \in Calls} \cup {"/api/auth/me", "/api/auth/logout"}

\* the URL is an endpoint that does not end with "/" followed by the path
JoinedAt(url, path) ==
    /\ EndsWith(url, path)
    /\ Len(url) > Len(path)
    /\ ~EndsWith(SubSeq(url, 1, Len(url) - Len(path)), "/")

\* C13: the endpoint of the client never ends with "/", whatever source it
\* was constructed from and after every change the program makes to it
\* (set_endpoint, the override of the interactive command), and the URL of
\* every request is the endpoint followed by the path, with no slash
\* between them added or removed.
C13_EndpointStripped ==
    /\ ~EndsWith(endpoint, "/")
    /\ \A i \in 1..Len(transport_log) :
          \E path \in MenuPaths : JoinedAt(transport_log[i].url, path)
    /\ (result.op = "_request" /\ transport_log # <<>>) =>
          \E path \in MenuPaths :
              transport_log[Len(transport_log)].url = endpoint \o path

\* the endpoint was typed with a trailing slash in set_endpoint and a
\* request went to it
C13_Witness ==
    /\ construction.file.endpoint = Str("http://hub.example")
    /\ construction.endpoint_arg = None
    /\ endpoint = "http://hub.example"
    /\ result.op = "_request"
    /\ transport_log[Len(transport_log)].url = "http://hub.example/api/commit"

(***************************************************************************)
(* Properties of the operation history (SpecHistory).                      *)
(***************************************************************************)
\* C15: get_history(limit) returns at most limit entries, for every limit
\* from 0 on, and they are the most recently added entries, the most recent
\* first.
C15_AtMostLimit ==
    (result.op = "get_history" /\ result.value.limit >= 0) =>
        LET items == result.value.items
            stored == IF history.t = "list" THEN history.items ELSE <<>>
        IN /\ Len(items) <= result.value.limit
           /\ Len(items) <= Len(stored)
           /\ \A i \in 1..Len(items) : items[i] = stored[Len(stored) + 1 - i]

\* C16: after add_to_history the stored history is a list of at most 50
\* entries, whatever was stored before: the entry just added is the last,
\* the entries are in the order they were added with none in between
\* missing, and an older entry is dropped only when the list is full.
C16_KeepsLast50 ==
    result.op = "add_to_history" =>
        LET items == history.items
        IN /\ history.t = "list"
           /\ Len(items) >= 1
           /\ Len(items) <= HistoryMax
           /\ items[Len(items)].operation = "upload"
           /\ \A i \in 1..(Len(items) - 1) :
                 items[i + 1].timestamp = items[i].timestamp + 1
           /\ items[1].timestamp > 1 => Len(items) = HistoryMax

\* the history is full, its oldest entries were dropped, and it holds both
\* stored and added entries
C16_Witness ==
    /\ result.op = "add_to_history"
    /\ Len(history.items) = HistoryMax
    /\ history.items[1].timestamp = 5
    /\ history.items[1].operation = "login"
    /\ history.items[HistoryMax].operation = "upload"

(***************************************************************************)
(* Properties of the construction of a client (SpecConfig).                *)
(***************************************************************************)
\* an argument or an environment variable is given when it is not empty
Given(v) == v # None /\ v # Str("")

\* C17: a new client takes as its endpoint the endpoint argument if one
\* is given, else HF_ENDPOINT if it is set, else the endpoint stored in the
\* config file if one is stored, else http://localhost:28080 (trailing
\* slashes removed); and as its token the token argument if one is given,
\* else HF_TOKEN if it is set, else the token stored in the config file,
\* else none, in which case it has no Authorization header.
C17_SourceOrder ==
    result.op = "__init__" =>
        LET c == construction
            ep == IF Given(c.endpoint_arg) THEN c.endpoint_arg.s
                  ELSE IF Given(c.env.HF_ENDPOINT) THEN c.env.HF_ENDPOINT.s
                  ELSE IF c.file.has_endpoint THEN c.file.endpoint.s
                  ELSE "http://localhost:28080"
            token == IF Given(c.token_arg) THEN c.token_arg
                     ELSE IF Given(c.env.HF_TOKEN) THEN c.env.HF_TOKEN
                     ELSE IF Given(c.file.token) THEN c.file.token
                     ELSE None
        IN /\ \E slashes \in {"", "/"} : ep = endpoint \o slashes
           /\ ~EndsWith(endpoint, "/")
           /\ TokenGetter(session_headers) = token
           /\ token = None => "Authorization" \notin HeaderNames(session_headers)

\* no argument is given, the environment is set and the file holds an
\* endpoint and a token: the environment wins
C17_Witness ==
    /\ result.op = "__init__"
    /\ ~Given(construction.endpoint_arg)
    /\ ~Given(construction.token_arg)
    /\ construction.env.HF_ENDPOINT = Str("http://env.example/")
    /\ construction.env.HF_TOKEN = Str("tokE")
    /\ construction.file.endpoint = Str("http://file.example")
    /\ construction.file.token = Str("tokF")
    /\ endpoint = "http://env.example"
    /\ TokenGetter(session_headers) = Str("tokE")

(***************************************************************************)
(* Properties of the settings lfs commands (SpecLfs).                      *)
(***************************************************************************)
\* the command that ran
Ran(command) == exit_code # 0 - 1 /\ lfs.args.command = command

\* the command asked to clear its setting and sent its settings update
ClearedThreshold == Ran("threshold") /\ lfs.args.reset /\ lfs.updated
ClearedVersions == Ran("versions") /\ lfs.args.reset /\ lfs.updated
ClearedSuffix ==
    /\ Ran("suffix")
    /\ lfs.updated
    /\ \/ lfs.args.clear
       \/ lfs.message = "Updated LFS suffix rules for alice/m: none"

\* the body of the update has the field, with null or an empty list
SendsEmpty(field) ==
    /\ field \in DataKeys(lfs.json)
    /\ ~Truthy(DataGet(lfs.json, field))

\* C19: a command that clears an LFS setting (threshold --reset, versions
\* --reset, suffix --clear, suffix --remove of the last rule) sends a
\* settings update whose body has the field of the setting
\* (lfs_threshold_bytes, lfs_keep_versions, lfs_suffix_rules) with a null
\* or empty value.
C19_ClearSendsField ==
    /\ ClearedThreshold => SendsEmpty("lfs_threshold_bytes")
    /\ ClearedVersions => SendsEmpty("lfs_keep_versions")
    /\ ClearedSuffix => SendsEmpty("lfs_suffix_rules")

\* the value of the command is below its minimum, or it has neither a value
\* nor --reset
BelowMinimum ==
    /\ ~lfs.args.reset
    /\ \/ lfs.args.value = None
       \/ Ran("threshold") /\ lfs.args.value.n < 1000000
       \/ Ran("versions") /\ lfs.args.value.n < 2

\* C20: lfs threshold with a --threshold below 1000000 and lfs versions with
\* a --count below 2, and either command with neither its value nor --reset,
\* end with exit status 1 and send no request: no settings update and
\* nothing else.
C20_MinimumsEnforced ==
    ((Ran("threshold") \/ Ran("versions")) /\ BelowMinimum) =>
        /\ exit_code = 1
        /\ ~lfs.updated
        /\ transport_log = <<>>
        /\ ~result.returned

\* lfs threshold --threshold 999999 ended with exit status 1 and nothing
\* was sent
C20_Witness ==
    /\ Ran("threshold")
    /\ lfs.args.value = Int_(999999)
    /\ ~lfs.args.reset
    /\ exit_code = 1
    /\ result.exc.kind = "BadParameter"
    /\ transport_log = <<>>

(***************************************************************************)
(* Properties of the logout and of the startup of the interactive mode     *)
(* (SpecSession).                                                          *)
(***************************************************************************)
\* C21: a logout that the logged-in user confirms ends with state.username
\* None whatever client.logout() did (a response, a typed error, a
\* NetworkError), returns normally and prints no error; a logout while
\* state.username is None sends no request and leaves the client, the
\* username and the configuration as they were.
C21_LogoutDiscardsErrors ==
    [][result'.op = "logout" =>
          /\ (Truthy(username) /\ Truthy(answer')) =>
                 /\ username' = None
                 /\ result'.returned
                 /\ console' = Line("Logged out")
          /\ username = None =>
                 /\ Len(transport_log') = Len(transport_log)
                 /\ UNCHANGED <<username, clientVars, construction>>]_vars

\* a confirmed logout whose request failed on the transport
C21_Witness ==
    /\ result.op = "logout"
    /\ Truthy(answer)
    /\ console = Line("Logged out")
    /\ username = None
    /\ last_outcome.raised
    /\ transport_log[Len(transport_log)].url = endpoint \o "/api/auth/logout"

\* the interactive mode has just started and the whoami of
\* InteractiveState.__init__ failed with the configured token
StartupTokenInvalid ==
    /\ result.op = "interactive"
    /\ console = Line(StoredTokenInvalid)

\* C22: when the whoami of the startup fails with the configured token,
\* state.username is None and the client holds no token any more, so that
\* no later request carries it.
C22_InvalidTokenCleared ==
    StartupTokenInvalid =>
        /\ username = None
        /\ TokenGetter(session_headers) = None

(***************************************************************************)
(* Properties of the order of the transfer command (SpecTransfer).         *)
(***************************************************************************)
\* nothing was fetched from the source and nothing was created or uploaded
\* on the target
NothingTransferred(ops, files) ==
    /\ \A i \in 1..Len(ops) :
          ops[i].op \notin {"snapshot_download", "list_repo_tree",
                            "download_file", "create_repo", "upload_file"}
    /\ files = NoFiles

\* the existence probe of a well-formed destination has just been answered
ProbeAnswered == tpc = "probe" /\ tpc' # "probe" /\ Contains(targs.dest_repo_id, "/")

\* C23: when the probe finds the destination and --force is not given, the
\* command ends with AlreadyExistsError and exit status 1 with nothing
\* fetched, created or uploaded; a probe that fails with NotFoundError lets
\* the command go on to the download, a probe that fails in any other way
\* ends the command, and a command that ended issues nothing more.
C23_ProbeBeforeTransfer ==
    [][/\ ProbeAnswered =>
            LET o == last_outcome'
                failed == o.raised \/ ~ResponseOk(o.response)
                              \/ ~o.response.json.ok
                notfound == /\ ~o.raised
                            /\ ~ResponseOk(o.response)
                            /\ handle_response_error(o.response).kind
                                   = "NotFoundError"
            IN /\ (~failed /\ ~targs.force) =>
                      /\ tpc' = "exit" /\ exit_code' = 1
                      /\ result'.exc.kind = "AlreadyExistsError"
                      /\ NothingTransferred(tops', tfiles')
               /\ (failed /\ ~notfound) =>
                      /\ tpc' = "exit" /\ exit_code' = 1
                      /\ NothingTransferred(tops', tfiles')
               /\ notfound => tpc' = "download" /\ exit_code' = 0 - 1
       /\ tpc = "exit" => UNCHANGED <<tops, tfiles, transport_log>>]_vars

\* the destination exists, --force is not given and the command has ended
C23_Witness ==
    /\ tpc = "exit"
    /\ ~targs.force
    /\ result.exc.kind = "AlreadyExistsError"
    /\ tops[Len(tops)] = [client |-> "target", op |-> "repo_info"]
    /\ ~last_outcome.raised
    /\ last_outcome.response.status_code = 200

(***************************************************************************)
(* Properties of the operations on files (SpecFiles).                      *)
(***************************************************************************)
\* the lines of a text
RECURSIVE LinesOf(_)
LinesOf(text) ==
    IF ~Contains(text, "\n") THEN <<text>>
    ELSE LET i == CHOOSE k \in 1..Len(text) :
                      /\ SubSeq(text, k, k) = "\n"
                      /\ \A j \in 1..(k - 1) : SubSeq(text, j, j) # "\n"
         IN <<SubSeq(text, 1, i - 1)>> \o LinesOf(SubSeq(text, i + 1, Len(text)))

\* what stands between a prefix and a suffix of a line
Framed(line, prefix, suffix) ==
    /\ Len(line) >= Len(prefix) + Len(suffix)
    /\ StartsWith(line, prefix)
    /\ EndsWith(line, suffix)
Middle(line, prefix, suffix) ==
    SubSeq(line, Len(prefix) + 1, Len(line) - Len(suffix))

\* json.loads of the text of a JSON string
RECURSIVE UnescapeJson(_)
UnescapeJson(text) ==
    IF Len(text) = 0 THEN ""
    ELSE IF SubSeq(text, 1, 1) = "\\" /\ Len(text) >= 2
    THEN (CASE SubSeq(text, 2, 2) = "n" -> "\n"
            [] OTHER -> SubSeq(text, 2, 2))
         \o UnescapeJson(SubSeq(text, 3, Len(text)))
    ELSE SubSeq(text, 1, 1) \o UnescapeJson(SubSeq(text, 2, Len(text)))

\* base64.b64decode of a text of whole groups of four characters
B64Value(c) == CHOOSE n \in 0..63 : B64Char(n) = c
RECURSIVE b64decode(_)
b64decode(text) ==
    IF Len(text) < 4 THEN <<>>
    ELSE LET a == B64Value(SubSeq(text, 1, 1))
             b == B64Value(SubSeq(text, 2, 2))
             c == SubSeq(text, 3, 3)
             d == SubSeq(text, 4, 4)
         IN (IF c = "=" THEN <<a * 4 + b \div 16>>
             ELSE IF d = "="
             THEN <<a * 4 + b \div 16, (b % 16) * 16 + B64Value(c) \div 4>>
             ELSE <<a * 4 + b \div 16, (b % 16) * 16 + B64Value(c) \div 4,
                    (B64Value(c) % 4) * 64 + B64Value(d)>>)
            \o b64decode(SubSeq(text, 5, Len(text)))

HeaderOpens == "{\"key\": \"header\", \"value\": {\"summary\": \""
HeaderCloses == "\", \"description\": \"\"}}"
FileOpens(repo_path) ==
    "{\"key\": \"file\", \"value\": {\"path\": \"" \o repo_path
        \o "\", \"content\": \""
FileCloses == "\", \"encoding\": \"base64\"}}"

\* upload_file raised this exception before it sent anything
UploadRefused(kind) ==
    /\ ~result.returned
    /\ result.exc.kind = kind
    /\ Len(transport_log) = called.sent
    /\ upload.payload = None

\* C24: upload_file of a missing local file raises FileNotFoundError and of
\* a repo_id without "/" raises ValueError, both with nothing sent; otherwise
\* it sends one POST with Content-Type application/x-ndjson whose body has
\* exactly two lines, the header entry whose summary is the commit message
\* (or "Upload {repo_path}" when there is none) and then the file entry with
\* the repo path and the base64 text of the content.
C24_CommitEnvelope ==
    called.op = "upload_file" =>
        IF ~upload.local_exists THEN UploadRefused("FileNotFoundError")
        ELSE IF ~Contains(called.repo_id, "/") THEN UploadRefused("ValueError")
        ELSE /\ Len(transport_log) = called.sent + 1
             /\ LET request == transport_log[Len(transport_log)]
                    lines == LinesOf(upload.payload.s)
                    summary == IF upload.commit_message \in {None, Str("")}
                               THEN "Upload " \o upload.repo_path
                               ELSE upload.commit_message.s
                IN /\ request.method = "POST"
                   /\ <<"Content-Type", "application/x-ndjson">> \in request.headers
                   /\ Len(lines) = 2
                   /\ Framed(lines[1], HeaderOpens, HeaderCloses)
                   /\ UnescapeJson(Middle(lines[1], HeaderOpens, HeaderCloses))
                         = summary
                   /\ Framed(lines[2], FileOpens(upload.repo_path), FileCloses)
                   /\ b64decode(Middle(lines[2], FileOpens(upload.repo_path),
                                       FileCloses))
                         = upload.content

\* the three bytes of "Man" were uploaded with a message of two lines
C24_Witness ==
    /\ called.op = "upload_file"
    /\ upload.content = <<77, 97, 110>>
    /\ upload.commit_message = Str("one\ntwo")
    /\ upload.payload # None
    /\ Contains(upload.payload.s, "\"content\": \"TWFu\"")
    /\ Len(transport_log) = called.sent + 1

\* download_file has just sent its request
Downloaded ==
    /\ called'.op = "download_file"
    /\ Len(transport_log') = Len(transport_log) + 1

\* C25: download_file touches the file at local_path only after a response
\* that is not an error: when the status is 400 or more it raises an error
\* and when the transport fails it raises NetworkError, and in both cases
\* the file is as it was (absent or with its old content); after any other
\* response the file holds the content of the response.
C25_WritesAfterSuccess ==
    [][Downloaded =>
          LET o == last_outcome'
          IN /\ (~o.raised /\ o.response.status_code >= 400) =>
                    /\ ~result'.returned
                    /\ local_file' = local_file
             /\ o.raised =>
                    /\ ~result'.returned
                    /\ result'.exc.kind = "NetworkError"
                    /\ local_file' = local_file
             /\ (~o.raised /\ o.response.status_code < 400) =>
                    local_file' = FileWith(o.response.text)]_vars

\* the hub answered 404 and the file that was there still holds its content
C25_Witness ==
    /\ called.op = "download_file"
    /\ Len(transport_log) = called.sent + 1
    /\ ~last_outcome.raised
    /\ last_outcome.response.status_code = 404
    /\ result.exc.kind = "NotFoundError"
    /\ local_file = FileWith("old")

\* list_namespace_repos has just returned a list
ListReturned == called.op = "list_namespace_repos" /\ result.returned

\* C26: every entry that list_namespace_repos returns carries a repo_type,
\* whether the dedicated endpoint answered or list_repos was used instead,
\* with and without a repo_type filter.
C26_EntriesCarryType ==
    ListReturned => \A i \in 1..Len(listed) : listed[i].repo_type # None

(***************************************************************************)
(* Properties of the upload phase of the transfer command (SpecTransfer).  *)
(***************************************************************************)
\* the files among the entries of the download directory that the upload
\* loop has looked at
FilesSeen == {i \in 1..(tfiles.next - 1) : tfiles.local[i].is_file}

\* the counts of the upload loop add up to the files it has looked at
CountsAddUp ==
    tfiles.uploaded + Len(tfiles.failed) + tfiles.skipped = Cardinality(FilesSeen)

\* one turn of the upload loop: the entry it looks at is counted once, as
\* skipped, uploaded or failed (with the text of its error), and the loop
\* goes on
UploadTurn ==
    (tpc = "upload" /\ tfiles' # tfiles) =>
        LET entry == tfiles.local[tfiles.next]
            o == last_outcome'
            failure == o.raised \/ ~ResponseOk(o.response) \/ ~o.response.json.ok
        IN /\ tpc' = "upload"
           /\ exit_code' = exit_code
           /\ tfiles'.next = tfiles.next + 1
           /\ tfiles'.local = tfiles.local
           /\ IF ~entry.is_file THEN
                 /\ tfiles'.uploaded = tfiles.uploaded
                 /\ tfiles'.skipped = tfiles.skipped
                 /\ tfiles'.failed = tfiles.failed
              ELSE IF should_skip_file(TempDirParts \o PartsOf(entry.path)) THEN
                 /\ tfiles'.uploaded = tfiles.uploaded
                 /\ tfiles'.skipped = tfiles.skipped + 1
                 /\ tfiles'.failed = tfiles.failed
              ELSE IF failure THEN
                 /\ tfiles'.uploaded = tfiles.uploaded
                 /\ tfiles'.skipped = tfiles.skipped
                 /\ ~result'.returned
                 /\ tfiles'.failed =
                        Append(tfiles.failed,
                               [file |-> entry.path,
                                error |-> result'.exc.message.s])
              ELSE
                 /\ tfiles'.uploaded = tfiles.uploaded + 1
                 /\ tfiles'.skipped = tfiles.skipped
                 /\ tfiles'.failed = tfiles.failed

\* C27: in the upload phase a failing upload does not end the command; every
\* file of the download directory is counted exactly once as uploaded,
\* failed or skipped, failed_files holds exactly the failed ones with the
\* text of their error, and the command ends with exit status 0 and no error
\* when every entry was looked at, also when some uploads failed.
C27_UploadsAccounted ==
    [][/\ UploadTurn
       /\ (tpc = "upload" /\ tpc' # "upload") =>
             (tpc' = "done" /\ tfiles' = tfiles)
       /\ tpc' \in {"upload", "done"} => CountsAddUp'
       /\ tpc' = "done" =>
             /\ tfiles'.next = Len(tfiles'.local) + 1
             /\ exit_code' = 0
             /\ result'.returned]_vars

\* the command ended without an error after one upload failed and one file
\* was skipped
C27_Witness ==
    /\ tpc = "done"
    /\ exit_code = 0
    /\ Len(tfiles.failed) = 1
    /\ tfiles.skipped = 1
    /\ Len(tfiles.local) >= 2
====
